---------------------------- MODULE Spec2Model ----------------------------
(***************************************************************************)
(* A model of pdf_contract_parser: the rule-based structuring pipeline     *)
(* (rules_parser.py), the auto-fixer (auto_fix.py), the strict rule check  *)
(* (grader.py) and the command-line flow that ties them together (main.py).*)
(*                                                                         *)
(* Text is modelled character by character: a Python str is a sequence of  *)
(* one-character strings, so that every regular expression and every       *)
(* str method of the source is computed, not assumed.  A JSON value is a   *)
(* record tagged by its Python type in the field t.                        *)
(***************************************************************************)
EXTENDS Integers, Sequences, FiniteSets, TLC

VARIABLES
    pc,                    \* position of the run that the specification drives
    DATEUTIL_AVAILABLE,    \* rules_parser.py:10-15, whether dateutil imported
    pages_text,            \* the per-page text handed to the parsers
    lines_by_page,         \* split_into_lines_by_page(pages_text)
    title_type,            \* guess_title_and_type(lines_by_page)
    seg,                   \* segment_sections' locals: doc_lines, i, sections, current_section
    effective_date,        \* extract_effective_date(pages_text)
    final_output,          \* the candidate document, as the caller holds it
    fixed,                 \* outcome of clean_and_validate_contract(final_output)
    refixed,               \* outcome of clean_and_validate_contract on that result
    report_in,             \* is_valid_against_pydantic_like_rules(final_output)
    report_out,            \* is_valid_against_pydantic_like_rules(fixed.value)
    assembled,             \* outcome of assemble_output_json
    output_json,           \* what the file at args.output_json holds
    exit_status,           \* the process's exit status, once it has ended
    calls                  \* the steps main has taken so far

vars == <<pc, DATEUTIL_AVAILABLE, pages_text, lines_by_page, title_type, seg,
          effective_date, final_output, fixed, refixed, report_in, report_out,
          assembled, output_json, exit_status, calls>>

\* The value of a variable that the run has not assigned yet.
Unset == [t |-> "unset"]

\* F(x), with x evaluated once, before F is entered
Apply(F(_), x) == CHOOSE r \in {F(v) : v \in {x}} : TRUE

---------------------------------------------------------------------------
(* Characters and the str methods the source uses.                         *)

Digit == {"0", "1", "2", "3", "4", "5", "6", "7", "8", "9"}
DigitSeq == <<"0", "1", "2", "3", "4", "5", "6", "7", "8", "9">>
UpperSeq == <<"A", "B", "C", "D", "E", "F", "G", "H", "I", "J", "K", "L", "M",
              "N", "O", "P", "Q", "R", "S", "T", "U", "V", "W", "X", "Y", "Z">>
LowerSeq == <<"a", "b", "c", "d", "e", "f", "g", "h", "i", "j", "k", "l", "m",
              "n", "o", "p", "q", "r", "s", "t", "u", "v", "w", "x", "y", "z">>
UpperCase == {UpperSeq[k] : k \in DOMAIN UpperSeq}
LowerCase == {LowerSeq[k] : k \in DOMAIN LowerSeq}
Letter == UpperCase \cup LowerCase
\* What \s of re and str.strip() treat as white space (the part of it the
\* model's alphabet holds).
Space == {" ", "\t", "\n", "\r"}

ToUpper == [c \in LowerCase |-> UpperSeq[CHOOSE k \in DOMAIN LowerSeq : LowerSeq[k] = c]]
ToLower == [c \in UpperCase |-> LowerSeq[CHOOSE k \in DOMAIN UpperSeq : UpperSeq[k] = c]]

upper(s) == [k \in DOMAIN s |-> IF s[k] \in LowerCase THEN ToUpper[s[k]] ELSE s[k]]
lower(s) == [k \in DOMAIN s |-> IF s[k] \in UpperCase THEN ToLower[s[k]] ELSE s[k]]

\* str.strip()
strip(s) ==
    IF \A k \in DOMAIN s : s[k] \in Space THEN <<>>
    ELSE LET a == CHOOSE a \in DOMAIN s :
                      s[a] \notin Space /\ \A j \in 1..(a - 1) : s[j] \in Space
             b == CHOOSE b \in DOMAIN s :
                      s[b] \notin Space /\ \A j \in (b + 1)..Len(s) : s[j] \in Space
         IN SubSeq(s, a, b)

\* re.sub(r'\s+', ' ', s): every maximal run of white space becomes one blank
\* (the run's first character is kept, as a blank; the rest of it goes).
sub_ws_runs(s) ==
    LET kept == SelectSeq([k \in DOMAIN s |-> k],
                          LAMBDA k : s[k] \notin Space \/ k = 1 \/ s[k - 1] \notin Space)
    IN [m \in DOMAIN kept |-> IF s[kept[m]] \in Space THEN " " ELSE s[kept[m]]]

\* A one-pass replace of two blanks by one (s.replace("  ", " ")), the classic
\* slip for "collapse white space": it halves a run instead of collapsing it.
RECURSIVE replace_pairs(_, _)
replace_pairs(s, k) ==
    IF k > Len(s) THEN <<>>
    ELSE IF s[k] \in Space /\ k < Len(s) /\ s[k + 1] \in Space
         THEN <<" ">> \o replace_pairs(s, k + 2)
         ELSE <<s[k]>> \o replace_pairs(s, k + 1)

sub_ws_pairs_once(s) == replace_pairs(s, 1)

\* re.sub(r'\s+', ' ', s) as the source calls it
sub_ws(s) == sub_ws_runs(s)

\* str(n) of a natural number
RECURSIVE NatToStr(_)
NatToStr(n) ==
    IF n < 10 THEN <<DigitSeq[n + 1]>>
    ELSE NatToStr(n \div 10) \o <<DigitSeq[(n % 10) + 1]>>

\* The text of a sequence of characters as one TLA+ string, for reading.
RECURSIVE Text(_)
Text(s) == IF s = <<>> THEN "" ELSE s[1] \o Text(Tail(s))

---------------------------------------------------------------------------
(* JSON values.  A scalar is [t, v]: t its Python type, v its characters   *)
(* (of a str: the text; of an int: its decimal form; else empty).  A key   *)
(* that a dict does not hold is the value Missing.  A list is              *)
(* [t |-> "list", v |-> <<...>>]; a dict is a record with t = "dict".      *)

Null == [t |-> "null", v |-> <<>>]
Missing == [t |-> "missing", v |-> <<>>]
StrV(s) == [t |-> "str", v |-> s]
IntV(n) == [t |-> "int", v |-> NatToStr(n)]
ListV(q) == [t |-> "list", v |-> q]

Clause(text, label, index) ==
    [t |-> "dict", text |-> text, label |-> label, index |-> index]
Section(title, number, clauses) ==
    [t |-> "dict", title |-> title, number |-> number, clauses |-> clauses]
Contract(title, contract_type, date, sections) ==
    [t |-> "dict", title |-> title, contract_type |-> contract_type,
     effective_date |-> date, sections |-> sections]

\* d.get(key) is None
IsNone(x) == x.t \in {"null", "missing"}
\* bool(x)
Truthy(x) ==
    CASE x.t \in {"null", "missing"} -> FALSE
      [] x.t = "int" -> x.v # <<"0">>
      [] x.t \in {"str", "list"} -> x.v # <<>>
      [] OTHER -> TRUE
\* str(x) of a str or an int
py_str(x) == x.v

---------------------------------------------------------------------------
(* auto_fix.py: clean_and_validate_contract.                               *)

\* \d{4}-\d{2}-\d{2}
iso_shape(s) ==
    /\ Len(s) = 10
    /\ \A k \in {1, 2, 3, 4, 6, 7, 9, 10} : s[k] \in Digit
    /\ s[5] = "-" /\ s[8] = "-"

\* re.fullmatch(r"\d{4}-\d{2}-\d{2}", s)
re_fullmatch_iso(s) == iso_shape(s)

\* re.match(r'^\d{4}-\d{2}-\d{2}$', s): without re.MULTILINE, $ matches at
\* the end of the string and also just before a newline that ends it.
re_match_iso(s) ==
    \/ iso_shape(s)
    \/ Len(s) = 11 /\ s[11] = "\n" /\ iso_shape(SubSeq(s, 1, 10))

\* cleaned_data = data, without the copy: both names denote the caller's object.
cleaned_ref_aliased == "orig"

\* The object that the name cleaned_data is bound to: copy.deepcopy(data)
\* makes a fresh object ("copy"), distinct from the caller's ("orig").
cleaned_ref == "copy"

\* 1. Fix top-level fields
fix_effective_date(d) ==
    IF ~IsNone(d.effective_date) /\ ~re_match_iso(py_str(d.effective_date))
    THEN [d EXCEPT !.effective_date = Null]
    ELSE d

\* A filter that lets every section through.
keeps_every_section(s) == TRUE

\* s.get('clauses') as the filter's condition
keeps_section(s) == Truthy(s.clauses)

RECURSIVE select_sections(_, _)
select_sections(q, k) ==
    IF k > Len(q) THEN <<>>
    ELSE (IF keeps_section(q[k]) THEN <<q[k]>> ELSE <<>>) \o select_sections(q, k + 1)

\* 2. cleaned_data['sections'] = [s for s in cleaned_data['sections'] if s.get('clauses')]
\* Iterating None or an int, or calling .get on an element that is not a
\* dict, raises before the assignment.
filter_sections(d) ==
    LET ss == d.sections IN
    CASE ss.t = "missing" -> [raised |-> FALSE, v |-> d]
      [] ss.t = "list" ->
            IF \E k \in DOMAIN ss.v : ss.v[k].t # "dict"
            THEN [raised |-> TRUE, v |-> d]
            ELSE [raised |-> FALSE,
                  v |-> [d EXCEPT !.sections = ListV(select_sections(ss.v, 1))]]
      [] ss.t = "str" ->
            IF ss.v = <<>>
            THEN [raised |-> FALSE, v |-> [d EXCEPT !.sections = ListV(<<>>)]]
            ELSE [raised |-> TRUE, v |-> d]
      [] OTHER -> [raised |-> TRUE, v |-> d]

\* section['number'] = str(section['number']).strip()
fix_number(number) ==
    IF IsNone(number) THEN number ELSE StrV(strip(py_str(number)))

\* clause['label'] = "" if None else str(label).strip()
fix_label(label) ==
    IF IsNone(label) THEN StrV(<<>>) ELSE StrV(strip(py_str(label)))

\* re.sub(r'\s+', ' ', clause['text']).strip(), for a str only
fix_text(text) ==
    IF text.t = "str" THEN StrV(strip(sub_ws(text.v))) ELSE text

\* The index left as the input carried it.
fix_index_keep(cl, i) == cl.index

\* clause['index'] = i, with i the 0-based position
fix_index(cl, i) == IntV(i)

fix_clause(cl, i) ==
    [cl EXCEPT !.index = fix_index(cl, i),
               !.label = fix_label(cl.label),
               !.text = fix_text(cl.text)]

\* for i, clause in enumerate(...): the loop stops at the first clause that is
\* not a dict (item assignment raises), the clauses before it already fixed.
RECURSIVE fix_clauses(_, _)
fix_clauses(q, k) ==
    IF k > Len(q) THEN [raised |-> FALSE, v |-> q]
    ELSE IF q[k].t # "dict" THEN [raised |-> TRUE, v |-> q]
    ELSE fix_clauses([q EXCEPT ![k] = fix_clause(q[k], k - 1)], k + 1)

\* One turn of "for section in cleaned_data.get('sections', [])".  The filter
\* has left only dicts whose clauses are truthy: a non-empty list, or a
\* non-empty str or a non-zero int, on which the clause loop raises.
fix_section(s) ==
    LET s1 == [s EXCEPT !.number = fix_number(s.number)] IN
    IF s1.clauses.t = "list"
    THEN LET r == fix_clauses(s1.clauses.v, 1)
         IN [raised |-> r.raised, v |-> [s1 EXCEPT !.clauses = ListV(r.v)]]
    ELSE [raised |-> TRUE, v |-> s1]

RECURSIVE fix_sections(_, _)
fix_sections(q, k) ==
    IF k > Len(q) THEN [raised |-> FALSE, v |-> q]
    ELSE LET r == fix_section(q[k])
             q1 == [q EXCEPT ![k] = r.v]
         IN IF r.raised THEN [raised |-> TRUE, v |-> q1] ELSE fix_sections(q1, k + 1)

\* The statements of clean_and_validate_contract after the copy, run on the
\* object cleaned_data names: [raised, v] with v that object afterwards.
fix_in_place(d) ==
    LET d1 == fix_effective_date(d)
        f == filter_sections(d1)
    IN IF f.raised THEN f
       ELSE IF f.v.sections.t = "missing" THEN f
       ELSE LET r == fix_sections(f.v.sections.v, 1)
            IN [raised |-> r.raised, v |-> [f.v EXCEPT !.sections = ListV(r.v)]]

\* clean_and_validate_contract(data): [raised, value, data], value what it
\* returns (when it does not raise) and data the caller's object afterwards.
clean_and_validate_contract(d) ==
    LET objs == [orig |-> d, copy |-> d]
        r == fix_in_place(objs[cleaned_ref])
        after == [objs EXCEPT ![cleaned_ref] = r.v]
    IN [raised |-> r.raised, value |-> after[cleaned_ref], data |-> after.orig]

---------------------------------------------------------------------------
(* grader.py: is_valid_against_pydantic_like_rules.  A violation message   *)
(* is [field, si, ci, what]: the field it names, the section and clause    *)
(* positions it carries (-1 where the message has none) and its wording.   *)

Err(field, si, ci, what) == [field |-> field, si |-> si, ci |-> ci, what |-> what]

\* isinstance(x, str) and x != "": the test without its strip().
non_empty_str_nostrip(x) == x.t = "str" /\ x.v # <<>>

\* isinstance(x, str) and x.strip() != ""
non_empty_str(x) == x.t = "str" /\ strip(x.v) # <<>>

\* d.get(key, "") : the default stands in for a missing key
get_or_empty(x) == IF x.t = "missing" THEN StrV(<<>>) ELSE x

check_title(cleaned) ==
    IF ~non_empty_str(get_or_empty(cleaned.title))
    THEN <<Err("title", -1, -1, "invalid")>> ELSE <<>>

check_contract_type(cleaned) ==
    IF ~non_empty_str(get_or_empty(cleaned.contract_type))
    THEN <<Err("contract_type", -1, -1, "invalid")>> ELSE <<>>

check_effective_date(cleaned) ==
    LET ed == cleaned.effective_date IN
    IF ~IsNone(ed) /\ (ed.t # "str" \/ ~re_fullmatch_iso(ed.v))
    THEN <<Err("effective_date", -1, -1, "not ISO YYYY-MM-DD or null")>> ELSE <<>>

check_index(cl, si, ci) ==
    IF cl.index.t # "int" THEN <<Err("index", si, ci, "must be int")>>
    ELSE IF cl.index.v # NatToStr(ci) THEN <<Err("index", si, ci, "must be position")>>
    ELSE <<>>

check_clause(cl, si, ci) ==
    IF cl.t # "dict" THEN <<Err("clauses", si, ci, "not an object")>>
    ELSE (IF ~non_empty_str(get_or_empty(cl.text))
          THEN <<Err("text", si, ci, "invalid")>> ELSE <<>>)
      \o (IF get_or_empty(cl.label).t # "str"
          THEN <<Err("label", si, ci, "must be string (empty allowed)")>> ELSE <<>>)
      \o check_index(cl, si, ci)

RECURSIVE check_clauses(_, _, _)
check_clauses(q, si, k) ==
    IF k > Len(q) THEN <<>>
    ELSE check_clause(q[k], si, k - 1) \o check_clauses(q, si, k + 1)

check_section(sec, si) ==
    IF sec.t # "dict" THEN <<Err("section", si, -1, "not an object")>>
    ELSE (IF ~non_empty_str(get_or_empty(sec.title))
          THEN <<Err("title", si, -1, "invalid")>> ELSE <<>>)
      \o (IF ~IsNone(sec.number) /\ sec.number.t # "str"
          THEN <<Err("number", si, -1, "must be string or null")>> ELSE <<>>)
      \o (IF sec.clauses.t # "list" \/ sec.clauses.v = <<>>
          THEN <<Err("clauses", si, -1, "missing or empty")>>
          ELSE check_clauses(sec.clauses.v, si, 1))

RECURSIVE check_sections(_, _)
check_sections(q, k) ==
    IF k > Len(q) THEN <<>>
    ELSE check_section(q[k], k - 1) \o check_sections(q, k + 1)

is_valid_against_pydantic_like_rules(cleaned) ==
    LET errs == check_title(cleaned)
                \o check_contract_type(cleaned)
                \o check_effective_date(cleaned)
                \o (IF cleaned.sections.t # "list"
                    THEN <<Err("sections", -1, -1, "not a list")>>
                    ELSE check_sections(cleaned.sections.v, 1))
    IN [passed |-> errs = <<>>, errs |-> errs]

---------------------------------------------------------------------------
(* rules_parser.py: normalize_whitespace and assemble_output_json.         *)

\* re.sub(r'\s+', ' ', text or "").strip() of a str
normalize_whitespace(s) == strip(sub_ws(s))

\* normalize_whitespace(x) of any value x: "x or ''" turns a falsy value
\* into "", and re.sub raises TypeError on what is left if it is no str.
nw_raises(x) == Truthy(x) /\ x.t # "str"
nw_value(x) == IF Truthy(x) THEN normalize_whitespace(x.v) ELSE <<>>

\* sec_number = str(sec_number).strip() or None
assemble_number(number) ==
    IF IsNone(number) THEN Null
    ELSE LET n == strip(py_str(number)) IN IF n = <<>> THEN Null ELSE StrV(n)

\* label = cl.get("label", ""); None becomes ""; then normalize_whitespace
assemble_label(label) == IF IsNone(label) THEN StrV(<<>>) ELSE label

\* The index taken over from the input clause where it has one.
assemble_index_keep(cl, idx) == IF cl.index.t = "int" THEN cl.index ELSE IntV(idx)

\* "index": idx
assemble_index(cl, idx) == IntV(idx)

\* One turn of "for idx, cl in enumerate(sec.get('clauses', []))":
\* cl.get raises on a clause that is not a dict.
assemble_clause(cl, idx) ==
    IF cl.t # "dict" THEN [raised |-> TRUE, v |-> cl]
    ELSE LET text == get_or_empty(cl.text)
             label == assemble_label(cl.label)
         IN IF nw_raises(text) \/ nw_raises(label) THEN [raised |-> TRUE, v |-> cl]
            ELSE [raised |-> FALSE,
                  v |-> Clause(StrV(nw_value(text)), StrV(nw_value(label)),
                               assemble_index(cl, idx))]

RECURSIVE assemble_clauses(_, _)
assemble_clauses(q, k) ==
    IF k > Len(q) THEN [raised |-> FALSE, v |-> <<>>]
    ELSE LET c == assemble_clause(q[k], k - 1) IN
         IF c.raised THEN [raised |-> TRUE, v |-> <<>>]
         ELSE LET r == assemble_clauses(q, k + 1)
              IN [raised |-> r.raised, v |-> <<c.v>> \o r.v]

\* sec.get("clauses", []) as enumerate takes it: a missing key is the empty
\* list, a str yields its characters (none of them a dict), None and int
\* are not iterable.
clauses_iter(clauses) ==
    CASE clauses.t = "missing" -> [raised |-> FALSE, v |-> <<>>]
      [] clauses.t = "list" -> [raised |-> FALSE, v |-> clauses.v]
      [] clauses.t = "str" -> [raised |-> clauses.v # <<>>, v |-> <<>>]
      [] OTHER -> [raised |-> TRUE, v |-> <<>>]

\* One turn of "for sec in sections"
assemble_section(sec) ==
    IF sec.t # "dict" THEN [raised |-> TRUE, v |-> sec]
    ELSE LET sec_title == get_or_empty(sec.title)
             it == clauses_iter(sec.clauses)
             cs == assemble_clauses(it.v, 1)
         IN IF nw_raises(sec_title) \/ it.raised \/ cs.raised
            THEN [raised |-> TRUE, v |-> sec]
            ELSE [raised |-> FALSE,
                  v |-> Section(StrV(nw_value(sec_title)),
                                assemble_number(sec.number), ListV(cs.v))]

\* The loop "for sec in sections" with the sections that hold no clause left
\* out of out_sections.
RECURSIVE assemble_sections_nonempty(_, _)
assemble_sections_nonempty(q, k) ==
    IF k > Len(q) THEN [raised |-> FALSE, v |-> <<>>]
    ELSE LET s == assemble_section(q[k]) IN
         IF s.raised THEN [raised |-> TRUE, v |-> <<>>]
         ELSE LET r == assemble_sections_nonempty(q, k + 1)
              IN [raised |-> r.raised,
                  v |-> (IF s.v.clauses.v = <<>> THEN <<>> ELSE <<s.v>>) \o r.v]

RECURSIVE assemble_sections(_, _)
assemble_sections(q, k) ==
    IF k > Len(q) THEN [raised |-> FALSE, v |-> <<>>]
    ELSE LET s == assemble_section(q[k]) IN
         IF s.raised THEN [raised |-> TRUE, v |-> <<>>]
         ELSE LET r == assemble_sections(q, k + 1)
              IN [raised |-> r.raised, v |-> <<s.v>> \o r.v]

\* "for sec in sections" on the value passed as sections: a list yields its
\* elements, "" nothing; None and an int are not iterable, and the characters
\* of a non-empty str are no dicts.
sections_iter(sections) ==
    CASE sections.t = "list" -> [raised |-> FALSE, v |-> sections.v]
      [] sections.t = "str" -> [raised |-> sections.v # <<>>, v |-> <<>>]
      [] OTHER -> [raised |-> TRUE, v |-> <<>>]

\* assemble_output_json(title, contract_type, effective_date, sections):
\* [raised, value].
assemble_output_json(title, contract_type, date, sections) ==
    LET it == sections_iter(sections)
        ss == assemble_sections(it.v, 1)
    IN IF it.raised \/ ss.raised \/ nw_raises(title) \/ nw_raises(contract_type)
       THEN [raised |-> TRUE, value |-> Unset]
       ELSE [raised |-> FALSE,
             value |-> Contract(StrV(nw_value(title)), StrV(nw_value(contract_type)),
                                IF IsNone(date) THEN Null ELSE date,
                                ListV(ss.v))]

---------------------------------------------------------------------------
(* Candidate documents: the inputs of the document-level operations.       *)

\* The longest list of sections, and of clauses in a section, that is built
\* from the core values below.
MaxSections == 2
MaxClauses == 2

\* All sequences over S of length at most n.
RECURSIVE SeqsUpTo(_, _)
SeqsUpTo(S, n) ==
    IF n = 0 THEN {<<>>}
    ELSE LET shorter == SeqsUpTo(S, n - 1)
         IN shorter \cup {Append(q, x) : q \in shorter, x \in S}

GoodClause == Clause(StrV(<<"F", "o", "o">>), StrV(<<"(", "a", ")">>), IntV(0))
NullLabelClause == Clause(StrV(<<"B", "a", "r", " ", "b", "a", "z">>), Null, IntV(5))
MessyClause == Clause(StrV(<<" ", "a", " ", " ", " ", "b", "\n", " ", "c", " ">>), StrV(<<" ", "(", "b", ")", " ">>), IntV(1))

CoreClauses == {GoodClause, NullLabelClause, MessyClause}

\* One clause per way a clause can be off, and two values that are no dict.
ClauseVariants ==
    { Clause(StrV(<<"F", "o", "o">>), IntV(3), IntV(0)),
      Clause(StrV(<<"F", "o", "o">>), Missing, Missing),
      Clause(StrV(<<"F", "o", "o">>), Missing, IntV(0)),
      Clause(StrV(<<"F", "o", "o">>), StrV(<<>>), StrV(<<"0">>)),
      Clause(StrV(<<>>), StrV(<<>>), IntV(0)),
      Clause(StrV(<<" ", "\t", " ">>), StrV(<<>>), IntV(0)),
      Clause(Null, StrV(<<>>), IntV(0)),
      Clause(Missing, Null, IntV(0)),
      Clause(IntV(7), StrV(<<>>), IntV(0)),
      StrV(<<"x">>),
      Null }

ClauseLists == SeqsUpTo(CoreClauses, MaxClauses) \cup {<<c>> : c \in ClauseVariants}

\* Values of "clauses" that are no list.
ClausesNonList == {Missing, Null, StrV(<<>>), StrV(<<"a", "b">>), IntV(0), IntV(2)}

CoreSections ==
    { Section(StrV(<<"T", "e", "r", "m", "s">>), StrV(<<"1">>), ListV(<<GoodClause>>)),
      Section(StrV(<<"E", "m", "p", "t", "y">>), IntV(5), ListV(<<>>)),
      Section(StrV(<<"F", "e", "e", "s">>), Null, ListV(<<NullLabelClause, GoodClause>>)) }

SectionVariants ==
    {Section(StrV(<<"S">>), StrV(<<"1">>), ListV(q)) : q \in ClauseLists}
    \cup {Section(StrV(<<"S">>), StrV(<<"1">>), c) : c \in ClausesNonList}
    \cup {Section(StrV(<<"S">>), n, ListV(<<GoodClause>>)) :
             n \in {Missing, IntV(12), StrV(<<" ", "2", " ">>), StrV(<<>>), StrV(<<" ">>)}}
    \cup {Section(x, Null, ListV(<<GoodClause>>)) :
             x \in {StrV(<<>>), StrV(<<" ", "A", " ", " ", "B", " ">>), Null, Missing, IntV(4)}}
    \cup {StrV(<<"x">>), Null}

SectionLists == SeqsUpTo(CoreSections, MaxSections) \cup {<<s>> : s \in SectionVariants}

\* Values of "sections" that are no list.
SectionsNonList == {Missing, Null, StrV(<<>>), StrV(<<"a", "b">>), IntV(0)}

DateValues ==
    { Null, Missing,
      StrV(<<"2", "0", "2", "4", "-", "0", "1", "-", "0", "5">>),
      StrV(<<"2", "0", "2", "4", "-", "0", "1", "-", "0", "5", "\n">>),
      StrV(<<"2", "0", "2", "4", "-", "0", "1", "-", "0", "5", "\n", "\n">>),
      StrV(<<" ", "2", "0", "2", "4", "-", "0", "1", "-", "0", "5">>),
      StrV(<<"2", "0", "2", "4", "-", "1", "-", "5">>),
      StrV(<<"J", "a", "n", " ", "5", ",", " ", "2", "0", "2", "4">>),
      StrV(<<>>),
      IntV(20240105) }

TitleValues == {StrV(<<"T">>), StrV(<<>>), StrV(<<" ", "\n">>), StrV(<<" ", "M", "y", " ", " ", "D", "e", "a", "l", " ">>), Null, Missing, IntV(7)}

CandidateDocuments ==
    {Contract(StrV(<<"T">>), StrV(<<"X">>), x, ListV(q)) :
        x \in {Null, StrV(<<"J", "a", "n", " ", "5", ",", " ", "2", "0", "2", "4">>)}, q \in SectionLists}
    \cup {Contract(StrV(<<"T">>), StrV(<<"X">>), Null, ss) : ss \in SectionsNonList}
    \cup {Contract(x, StrV(<<"X">>), y, ListV(<<>>)) : x \in TitleValues, y \in DateValues}
    \cup {Contract(StrV(<<"T">>), x, Null, ListV(<<>>)) :
             x \in {StrV(<<>>), Null, Missing}}

---------------------------------------------------------------------------
(* SpecFix: the document-level operations applied to a candidate document. *)

NoRules ==
    /\ pages_text = <<>> /\ lines_by_page = <<>> /\ title_type = Unset
    /\ seg = Unset /\ effective_date = Unset
NoMain == output_json = Unset /\ exit_status = Unset /\ calls = {}

InitFix ==
    /\ pc = "input"
    /\ DATEUTIL_AVAILABLE = TRUE
    /\ final_output \in CandidateDocuments
    /\ fixed = Unset /\ refixed = Unset /\ report_in = Unset
    /\ report_out = Unset /\ assembled = Unset
    /\ NoRules /\ NoMain

\* grader.py on the candidate as it is
ValidateInput ==
    /\ pc = "input"
    /\ report_in' = is_valid_against_pydantic_like_rules(final_output)
    /\ pc' = "checked"
    /\ UNCHANGED <<DATEUTIL_AVAILABLE, pages_text, lines_by_page, title_type, seg,
                   effective_date, final_output, fixed, refixed, report_out,
                   assembled, output_json, exit_status, calls>>

\* clean_and_validate_contract(final_output)
AutoFix ==
    /\ pc = "checked"
    /\ LET r == clean_and_validate_contract(final_output) IN
         /\ fixed' = [raised |-> r.raised, value |-> IF r.raised THEN Unset ELSE r.value]
         /\ final_output' = r.data
    /\ pc' = "fixed"
    /\ UNCHANGED <<DATEUTIL_AVAILABLE, pages_text, lines_by_page, title_type, seg,
                   effective_date, refixed, report_in, report_out,
                   assembled, output_json, exit_status, calls>>

\* grader.py on what the auto-fixer returned
ValidateFixed ==
    /\ pc = "fixed" /\ ~fixed.raised
    /\ report_out' = is_valid_against_pydantic_like_rules(fixed.value)
    /\ pc' = "validated"
    /\ UNCHANGED <<DATEUTIL_AVAILABLE, pages_text, lines_by_page, title_type, seg,
                   effective_date, final_output, fixed, refixed, report_in,
                   assembled, output_json, exit_status, calls>>

\* clean_and_validate_contract on its own result
AutoFixAgain ==
    /\ pc = "validated"
    /\ LET r == clean_and_validate_contract(fixed.value) IN
         refixed' = [raised |-> r.raised, value |-> IF r.raised THEN Unset ELSE r.value]
    /\ pc' = "refixed"
    /\ UNCHANGED <<DATEUTIL_AVAILABLE, pages_text, lines_by_page, title_type, seg,
                   effective_date, final_output, fixed, report_in, report_out,
                   assembled, output_json, exit_status, calls>>

\* assemble_output_json on the candidate's four fields
Assemble ==
    /\ pc = "refixed" \/ (pc = "fixed" /\ fixed.raised)
    /\ assembled' = assemble_output_json(final_output.title, final_output.contract_type,
                                         final_output.effective_date, final_output.sections)
    /\ pc' = "assembled"
    /\ UNCHANGED <<DATEUTIL_AVAILABLE, pages_text, lines_by_page, title_type, seg,
                   effective_date, final_output, fixed, refixed, report_in, report_out,
                   output_json, exit_status, calls>>

NextFix == ValidateInput \/ AutoFix \/ ValidateFixed \/ AutoFixAgain \/ Assemble

SpecFix == InitFix /\ [][NextFix]_vars

---------------------------------------------------------------------------
(* Properties of the document-level operations (SpecFix).                  *)

\* The sections of a document, when it holds a list of them.
SectionsOf(d) == IF d.sections.t = "list" THEN d.sections.v ELSE <<>>

\* A str with at least one character that is not white space.
IsFilledStr(x) == x.t = "str" /\ \E k \in DOMAIN x.v : x.v[k] \notin Space

\* The documents C1 is about: everything is in order except, possibly, the
\* effective date (any value), clause labels that are null, section numbers
\* that are no str, clause indices that are not the positions, and sections
\* whose clauses list is empty.
OnlyListedDefects(d) ==
    /\ IsFilledStr(d.title) /\ IsFilledStr(d.contract_type)
    /\ d.sections.t = "list"
    /\ \A k \in DOMAIN d.sections.v :
          LET s == d.sections.v[k] IN
          /\ s.t = "dict" /\ IsFilledStr(s.title)
          /\ s.number.t \in {"null", "str", "int"}
          /\ s.clauses.t = "list"
          /\ \A j \in DOMAIN s.clauses.v :
                LET c == s.clauses.v[j] IN
                /\ c.t = "dict" /\ IsFilledStr(c.text)
                /\ c.label.t \in {"null", "str"}
                /\ c.index.t = "int"

\* C1: for every document whose only defects are a non-ISO effective date,
\* null labels, non-string section numbers, non-contiguous indices or
\* empty-clause sections, the auto-fixer returns and the strict check of
\* what it returns passes with no violation.
C1_FixedDocumentPasses ==
    OnlyListedDefects(final_output) =>
        /\ fixed # Unset => ~fixed.raised
        /\ report_out # Unset => report_out.passed /\ report_out.errs = <<>>

\* C1 fails here: a document whose only defect is its effective date, an ISO
\* date followed by a newline, which the auto-fixer kept and the strict check
\* of the fixed document then rejected.
C1_Witness ==
    /\ OnlyListedDefects(final_output)
    /\ final_output.effective_date = StrV(<<"2", "0", "2", "4", "-", "0", "1", "-", "0", "5", "\n">>)
    /\ fixed # Unset /\ ~fixed.raised
    /\ fixed.value.effective_date = StrV(<<"2", "0", "2", "4", "-", "0", "1", "-", "0", "5", "\n">>)
    /\ report_out # Unset /\ ~report_out.passed

\* A section of d whose clauses are an empty list.
HasEmptySection(d) ==
    \E k \in DOMAIN SectionsOf(d) :
        LET s == SectionsOf(d)[k] IN
        s.t = "dict" /\ s.clauses.t = "list" /\ s.clauses.v = <<>>

\* Every section of d holds a list of at least one clause.
EverySectionHasClauses(d) ==
    \A k \in DOMAIN SectionsOf(d) :
        LET s == SectionsOf(d)[k] IN
        s.t = "dict" /\ s.clauses.t = "list" /\ Len(s.clauses.v) >= 1

\* C2 as stated: no section with an empty clauses list appears in the output
\* of assemble_output_json or of clean_and_validate_contract.
C2_NoEmptySectionFromEither ==
    /\ (fixed # Unset /\ ~fixed.raised) => ~HasEmptySection(fixed.value)
    /\ (assembled # Unset /\ ~assembled.raised) => ~HasEmptySection(assembled.value)

\* C2 as amended: every section in the output of clean_and_validate_contract
\* holds a non-empty list of clauses (assemble_output_json is not covered: it
\* keeps the empty-clause sections it is given).
C2_NoEmptySectionFromAutoFix ==
    (fixed # Unset /\ ~fixed.raised) => EverySectionHasClauses(fixed.value)

\* The auto-fixer returned for a document that held an empty-clause section.
C2_Witness ==
    pc = "fixed" /\ ~fixed.raised /\ HasEmptySection(final_output)

\* In every section of d the clause at position i (0-based) has index i.
IndicesArePositions(d) ==
    \A k \in DOMAIN SectionsOf(d) :
        LET s == SectionsOf(d)[k] IN
        \A j \in DOMAIN s.clauses.v : s.clauses.v[j].index = IntV(j - 1)

\* C3: in every document returned by assemble_output_json or by
\* clean_and_validate_contract, each section's clause at position i has
\* index i, whatever indices the input carried.
C3_IndicesArePositions ==
    /\ (fixed # Unset /\ ~fixed.raised) => IndicesArePositions(fixed.value)
    /\ (assembled # Unset /\ ~assembled.raised) => IndicesArePositions(assembled.value)

\* Both operations returned for a document in which some clause's index was
\* not its position.
C3_Witness ==
    /\ pc = "assembled" /\ ~fixed.raised /\ ~assembled.raised
    /\ \E k \in DOMAIN SectionsOf(final_output) :
          LET s == SectionsOf(final_output)[k] IN
          /\ s.t = "dict" /\ s.clauses.t = "list"
          /\ \E j \in DOMAIN s.clauses.v :
                s.clauses.v[j].t = "dict" /\ s.clauses.v[j].index # IntV(j - 1)

\* C4: when the auto-fixer returns for d, it returns for its own result too,
\* and that second result equals the first.
C4_AutoFixIdempotent ==
    pc = "refixed" => ~refixed.raised /\ refixed.value = fixed.value

\* The second pass ran on the result of a first pass that had changed the
\* document.
C4_Witness ==
    pc = "refixed" /\ fixed.value # final_output

TitleUnusable(d) ==
    d.title.t # "str" \/ \A k \in DOMAIN d.title.v : d.title.v[k] \in Space

\* A report that fails and holds the message "title invalid".
ReportsTitle(r) ==
    ~r.passed /\ \E k \in DOMAIN r.errs : r.errs[k] = Err("title", -1, -1, "invalid")

\* C8: the strict check of a document whose title is missing, no str, empty
\* or white space only fails, with a violation that names the title.
C8_UnusableTitleReported ==
    /\ (report_in # Unset /\ TitleUnusable(final_output)) => ReportsTitle(report_in)
    /\ (report_out # Unset /\ TitleUnusable(fixed.value)) => ReportsTitle(report_out)

\* The check ran on a document whose title is a non-empty str of white space.
C8_Witness ==
    /\ pc = "checked" /\ final_output.title.t = "str"
    /\ final_output.title.v # <<>> /\ TitleUnusable(final_output)

---------------------------------------------------------------------------
(* rules_parser.py: scanning helpers for its regular expressions.          *)

\* [A-Za-z0-9_], what \b tells apart from the rest
WordChar == Letter \cup Digit \cup {"_"}
\* [IVXLCDM] under re.IGNORECASE
RomanChar == {"I", "V", "X", "L", "C", "D", "M", "i", "v", "x", "l", "c", "d", "m"}

\* The first position from k on whose character is not in S (Len(s) + 1 when
\* there is none): where a greedy S* that starts at k ends.
RECURSIVE SkipWhile(_, _, _)
SkipWhile(s, k, S) ==
    IF k <= Len(s) /\ s[k] \in S THEN SkipWhile(s, k + 1, S) ELSE k

\* s[k..] begins with the literal w, compared without case
MatchesAtCI(s, k, w) ==
    /\ k >= 1 /\ k + Len(w) - 1 <= Len(s)
    /\ \A j \in 1..Len(w) : lower(<<s[k + j - 1]>>) = lower(<<w[j]>>)

\* \b at position k (between s[k-1] and s[k])
WordBoundary(s, k) ==
    LET before == k > 1 /\ s[k - 1] \in WordChar
        after == k <= Len(s) /\ s[k] \in WordChar
    IN before # after

\* re.search(r'\b(w)\b', s, re.IGNORECASE) for a literal w
ContainsWordCI(s, w) ==
    \E k \in 1..Len(s) :
        MatchesAtCI(s, k, w) /\ WordBoundary(s, k) /\ WordBoundary(s, k + Len(w))

\* s.split() / re.split(r'\s+', s) without the empty pieces: the maximal runs
\* of characters that are not white space.
RECURSIVE words_from(_, _)
words_from(s, k) ==
    LET a == SkipWhile(s, k, Space) IN
    IF a > Len(s) THEN <<>>
    ELSE LET b == SkipWhile(s, a, {s[j] : j \in a..Len(s)} \ Space)
         IN <<SubSeq(s, a, b - 1)>> \o words_from(s, b)

split_words(s) == words_from(s, 1)

\* re.sub(r'[^A-Za-z]', '', s)
letters_of(s) == SelectSeq(s, LAMBDA c : c \in Letter)

\* sum(1 for c in s if c.isupper())
count_upper(s) == Len(SelectSeq(s, LAMBDA c : c \in UpperCase))

\* int(tok) of a string of digits
RECURSIVE StrToNat(_)
StrToNat(s) ==
    IF s = <<>> THEN 0
    ELSE 10 * StrToNat(SubSeq(s, 1, Len(s) - 1))
         + (CHOOSE n \in 0..9 : DigitSeq[n + 1] = s[Len(s)])

all_digits(s) == s # <<>> /\ \A k \in DOMAIN s : s[k] \in Digit

\* s.rstrip(".)")
rstrip_dot_paren(s) ==
    IF \A k \in DOMAIN s : s[k] \in {".", ")"} THEN <<>>
    ELSE LET b == CHOOSE b \in DOMAIN s :
                      s[b] \notin {".", ")"} /\ \A j \in (b + 1)..Len(s) : s[j] \in {".", ")"}
         IN SubSeq(s, 1, b)

\* The token a numbering pattern can match at the start of a stripped line:
\* none of the alternatives admits white space and each is followed by \s+,
\* so the token is the line up to its first white space, which must exist.
token_end(raw) == SkipWhile(raw, 1, {raw[j] : j \in DOMAIN raw} \ Space)
has_token(raw) == token_end(raw) > 1 /\ token_end(raw) <= Len(raw)
token_of(raw) == SubSeq(raw, 1, token_end(raw) - 1)
\* what follows the token's \s+ : the group (.*)
after_token(raw) == SubSeq(raw, SkipWhile(raw, token_end(raw), Space), Len(raw))

\* (?:\d+(?:\.\d+)+)
RECURSIVE dotted_tail(_, _)
dotted_tail(p, k) ==
    \* p[k..] is (\.\d+)+
    /\ k < Len(p) /\ p[k] = "." /\ p[k + 1] \in Digit
    /\ LET e == SkipWhile(p, k + 1, Digit) IN e > Len(p) \/ dotted_tail(p, e)

is_decimal_token(p) ==
    /\ p # <<>> /\ p[1] \in Digit
    /\ dotted_tail(p, SkipWhile(p, 1, Digit))

\* (?:\d+[.)])
is_int_punct_token(p) ==
    Len(p) >= 2 /\ p[Len(p)] \in {".", ")"} /\ all_digits(SubSeq(p, 1, Len(p) - 1))

\* (?:[IVXLCDM]+[.)])
is_roman_token(p) ==
    /\ Len(p) >= 2 /\ p[Len(p)] \in {".", ")"}
    /\ \A k \in 1..(Len(p) - 1) : p[k] \in RomanChar

\* (?:[A-Za-z][.)])
is_letter_token(p) == Len(p) = 2 /\ p[1] \in Letter /\ p[2] \in {".", ")"}

\* (?:\d+)(?=\s+[A-Z][A-Za-z]) under re.IGNORECASE: digits, and after the
\* white space two letters of either case
is_bare_int_token(raw) ==
    /\ all_digits(token_of(raw))
    /\ LET r == after_token(raw) IN Len(r) >= 2 /\ r[1] \in Letter /\ r[2] \in Letter

\* \((?:\d+|[a-z]|[ivxlcdm]+)\) under re.IGNORECASE
is_paren_token(p) ==
    /\ Len(p) >= 3 /\ p[1] = "(" /\ p[Len(p)] = ")"
    /\ LET inner == SubSeq(p, 2, Len(p) - 1) IN
         \/ all_digits(inner)
         \/ Len(inner) = 1 /\ inner[1] \in Letter
         \/ \A k \in DOMAIN inner : inner[k] \in RomanChar

\* SECTION_HEADER_CANDIDATE_RE.match(raw)
SECTION_HEADER_CANDIDATE_RE(raw) ==
    /\ has_token(raw)
    /\ \/ is_decimal_token(token_of(raw))
       \/ is_int_punct_token(token_of(raw))
       \/ is_roman_token(token_of(raw))
       \/ is_letter_token(token_of(raw))
       \/ is_bare_int_token(raw)

\* CLAUSE_LABEL_RE / clause_re .match(raw)
CLAUSE_LABEL_RE(raw) ==
    /\ has_token(raw)
    /\ \/ is_paren_token(token_of(raw))
       \/ is_decimal_token(token_of(raw))
       \/ is_int_punct_token(token_of(raw))
       \/ is_letter_token(token_of(raw))
       \/ is_roman_token(token_of(raw))

\* EXHIBIT_HEADER_RE.match(line.strip())
is_exhibit_header(line) ==
    LET s == strip(line) IN
    \E w \in {<<"E", "X", "H", "I", "B", "I", "T">>, <<"S", "C", "H", "E", "D", "U", "L", "E">>, <<"A", "N", "N", "E", "X">>} :
        /\ MatchesAtCI(s, 1, w)
        /\ Len(s) > Len(w) /\ s[Len(w) + 1] \in Space
        /\ LET k == SkipWhile(s, Len(w) + 1, Space)
           IN k <= Len(s) /\ s[k] \in Letter \cup Digit \cup {".", "-"}

\* PAGE_MARKER_RE.match(line.strip()):  ^\s*-?\s*\d+\s*-?\s*$
is_page_marker(line) ==
    LET s == strip(line)
        a == IF s # <<>> /\ s[1] = "-" THEN 2 ELSE 1
        b == SkipWhile(s, a, Space)
        c == SkipWhile(s, b, Digit)
        d == SkipWhile(s, c, Space)
        e == IF d <= Len(s) /\ s[d] = "-" THEN d + 1 ELSE d
    IN c > b /\ SkipWhile(s, e, Space) > Len(s)

\* The alternatives of VERBISH_RE, each between \b and \b
VERBISH_WORDS ==
    { <<"s", "h", "a", "l", "l">>, <<"m", "a", "y">>, <<"a", "g", "r", "e", "e">>, <<"a", "g", "r", "e", "e", "s">>, <<"u", "s", "e">>, <<"a", "p", "p", "l", "y">>, <<"p", "e", "r", "m", "i", "t">>,
      <<"t", "e", "r", "m", "i", "n", "a", "t", "e">>, <<"m", "e", "a", "n">>, <<"m", "e", "a", "n", "s">>, <<"i", "n", "c", "l", "u", "d", "e">>, <<"i", "n", "c", "l", "u", "d", "e", "s">>,
      <<"s", "p", "e", "c", "i", "f", "y">>, <<"s", "p", "e", "c", "i", "f", "i", "e", "s">>, <<"l", "o", "c", "a", "t", "e", "d">>, <<"n", "o", "t", "i", "f", "i", "e", "d">>, <<"s", "u", "b", "m", "i", "t">>,
      <<"s", "u", "b", "m", "i", "t", "t", "e", "d">>, <<"a", "p", "p", "r", "o", "v", "e">>, <<"a", "p", "p", "r", "o", "v", "e", "d">>, <<"d", "i", "s", "t", "r", "i", "b", "u", "t", "e">>, <<"m", "a", "r", "k", "e", "t">>,
      <<"s", "e", "l", "l">>, <<"p", "r", "o", "v", "i", "d", "e">>, <<"d", "e", "l", "i", "v", "e", "r">>, <<"p", "e", "r", "f", "o", "r", "m">> }

\* The alternatives that VERBISH_LOCAL of segment_sections adds
VERBISH_LOCAL_WORDS ==
    VERBISH_WORDS \cup
    { <<"r", "e", "i", "m", "b", "u", "r", "s", "e">>, <<"i", "n", "c", "u", "r", "r", "e", "d">>, <<"p", "a", "r", "t", "i", "c", "i", "p", "a", "t", "e">>, <<"p", "a", "r", "t", "i", "c", "i", "p", "a", "t", "i", "n", "g">>,
      <<"s", "u", "b", "j", "e", "c", "t">>, <<"r", "e", "s", "e", "r", "v", "e", "d">>, <<"u", "n", "d", "e", "r", "s", "t", "a", "n", "d">>, <<"u", "n", "d", "e", "r", "s", "t", "a", "n", "d", "s">>, <<"d", "e", "l", "i", "v", "e", "r", "y">> }

\* The maximal runs of word characters of s, in lower case: a literal of word
\* characters matches between \b and \b exactly when it is one of them.
RECURSIVE word_runs(_, _)
word_runs(s, k) ==
    LET a == SkipWhile(s, k, {s[j] : j \in DOMAIN s} \ WordChar) IN
    IF a > Len(s) THEN {}
    ELSE LET b == SkipWhile(s, a, WordChar)
         IN {lower(SubSeq(s, a, b - 1))} \cup word_runs(s, b)

\* VERBISH_RE.search(t)
VERBISH_RE(t) == word_runs(t, 1) \cap VERBISH_WORDS # {}
\* VERBISH_LOCAL.search(t)
VERBISH_LOCAL(t) == word_runs(t, 1) \cap VERBISH_LOCAL_WORDS # {}

---------------------------------------------------------------------------
(* rules_parser.py: the detectors of titles and headers.                   *)

\* The length limit of a title or header line
MAX_TITLE_LEN == 120
\* is_small_integer_token: 0 < int(tok) < SMALL_INT_LIMIT
SMALL_INT_LIMIT == 100
\* is_short_title: at most this many words
SHORT_TITLE_WORDS == 8
\* split_short_heading: the head holds at most this many characters
MAX_HEAD_LEN == 80
\* looks_like_title: a title holds more than this many characters
MIN_TITLE_LEN == 3
\* the uppercase-ratio rule applies from this many letters on
MIN_RATIO_LETTERS == 4
\* guess_title_and_type scans this many candidate lines
TITLE_SCAN_LINES == 15

\* x / y >= 0.8 for naturals x, y with y > 0
ratio_at_least_080(x, y) == 5 * x >= 4 * y

\* looks_like_title(line)
looks_like_title(line) ==
    LET up == strip(line) IN
    /\ Len(up) > MIN_TITLE_LEN
    /\ up = upper(up)
    /\ up[Len(up)] # "."
    /\ Len(up) <= MAX_TITLE_LEN

\* is_titleish_header(text)
is_titleish_header(text) ==
    LET t == strip(text)
        words == split_words(t)
        letters == letters_of(t)
    IN /\ t # <<>> /\ Len(t) <= MAX_TITLE_LEN
       /\ ~VERBISH_RE(t)
       /\ Len(words) >= 2
       /\ \/ Len(letters) >= MIN_RATIO_LETTERS
             /\ ratio_at_least_080(count_upper(letters), Len(letters))
          \/ ratio_at_least_080(
                 Cardinality({k \in DOMAIN words : words[k][1] \in UpperCase}),
                 Len(words))

\* is_small_integer_token(tok), for a token of digits
is_small_integer_token(tok) ==
    all_digits(tok) /\ 0 < StrToNat(tok) /\ StrToNat(tok) < SMALL_INT_LIMIT

\* looks_valid_section_title(line): not  ^Page\s+\d+\s*$  (re.IGNORECASE)
looks_valid_section_title(line) ==
    ~( /\ MatchesAtCI(line, 1, <<"P", "a", "g", "e">>)
       /\ Len(line) > 4 /\ line[5] \in Space
       /\ LET a == SkipWhile(line, 5, Space)
              b == SkipWhile(line, a, Digit)
          IN b > a /\ SkipWhile(line, b, Space) > Len(line) )

\* is_short_title(text), local to segment_sections
is_short_title(text) ==
    LET t == strip(text)
        words == split_words(t)
    IN /\ t # <<>> /\ Len(t) <= MAX_TITLE_LEN
       /\ ~VERBISH_LOCAL(t)
       /\ IF Len(words) = 1
          THEN LET w == words[1] IN
               /\ w[Len(w)] \notin {".", ",", ";", ":", "!", "?"}
               /\ \/ w[1] \in UpperCase
                  \/ (\E k \in DOMAIN w : w[k] \in Letter)
                     /\ \A k \in DOMAIN w : w[k] \notin LowerCase
          ELSE Len(words) <= SHORT_TITLE_WORDS

\* [.:;:\-–—], the separators of split_short_heading (the part of
\* them the model's alphabet holds)
HeadingSeparator == {".", ":", ";", "-"}

\* split_short_heading(rest): [head, tail], head = <<>> standing for None.
\*   ^\s*(?P<head>[^seps]{1,80}?)\s*[seps]\s*(?P<trail>.*)$
\* The lazy head stops as soon as white space and a separator follow it: it
\* runs from the first character that is no white space to the last one
\* before the first separator.
split_short_heading(rest) ==
    LET a == SkipWhile(rest, 1, Space)
        p == SkipWhile(rest, a, {rest[j] : j \in DOMAIN rest} \ HeadingSeparator)
    IN IF p > Len(rest) \/ p = a
       THEN [matched |-> FALSE, head |-> <<>>, tail |-> rest]
       ELSE LET head == strip(SubSeq(rest, a, p - 1))
            IN IF Len(head) > MAX_HEAD_LEN
               THEN [matched |-> FALSE, head |-> <<>>, tail |-> rest]
               ELSE [matched |-> TRUE, head |-> head,
                     tail |-> strip(SubSeq(rest, p + 1, Len(rest)))]

---------------------------------------------------------------------------
(* rules_parser.py: split_into_lines_by_page, guess_title_and_type,        *)
(* derive_contract_type_from_title.                                        *)

\* The n-th smallest element of a set of positions
nth(S, n) == CHOOSE k \in S : Cardinality({j \in S : j < k}) = n - 1

\* p.split('\n')
split_newline(s) ==
    LET nl == {k \in DOMAIN s : s[k] = "\n"}
        n == Cardinality(nl)
    IN [m \in 1..(n + 1) |->
           SubSeq(s, IF m = 1 THEN 1 ELSE nth(nl, m - 1) + 1,
                     IF m = n + 1 THEN Len(s) ELSE nth(nl, m) - 1)]

\* One page of split_into_lines_by_page: the stripped lines, an empty line
\* dropped when the line before it is empty too.
page_lines(p) ==
    LET lines == split_newline(p)
        stripped == [k \in DOMAIN lines |-> strip(lines[k])]
        kept == {k \in DOMAIN stripped :
                    ~(stripped[k] = <<>> /\ k > 1 /\ stripped[k - 1] = <<>>)}
    IN [m \in 1..Cardinality(kept) |-> stripped[nth(kept, m)]]

split_into_lines_by_page(pages) == [n \in DOMAIN pages |-> page_lines(pages[n])]

\* The leftmost match of "[A-Za-z ]*" followed by the literal w (without case)
\* in t, from position `from` on: [found, text].  The star is greedy: from the
\* leftmost start that can reach an occurrence of w through letters and
\* blanks, it runs to the last such occurrence.
LetterOrBlank == Letter \cup {" "}

search_run_then(t, from, w) ==
    LET reach(a) == {j \in a..Len(t) :
                        /\ MatchesAtCI(t, j, w)
                        /\ \A i \in a..(j - 1) : t[i] \in LetterOrBlank}
        starts == {a \in from..Len(t) : reach(a) # {}}
    IN IF starts = {} THEN [found |-> FALSE, text |-> <<>>]
       ELSE LET a == CHOOSE a \in starts : \A b \in starts : a <= b
                j == CHOOSE j \in reach(a) : \A i \in reach(a) : i <= j
            IN [found |-> TRUE, text |-> SubSeq(t, a, j + Len(w) - 1)]

\* r'(Master [A-Za-z ]*Agreement)': the leftmost "Master " from which letters
\* and blanks lead to an "Agreement", up to the last such "Agreement"
search_master_agreement(t) ==
    LET ends(a) == {j \in (a + 7)..Len(t) :
                       /\ MatchesAtCI(t, j, <<"A", "g", "r", "e", "e", "m", "e", "n", "t">>)
                       /\ \A i \in (a + 7)..(j - 1) : t[i] \in LetterOrBlank}
        hits == {a \in 1..Len(t) :
                    MatchesAtCI(t, a, <<"M", "a", "s", "t", "e", "r", " ">>) /\ ends(a) # {}}
    IN IF hits = {} THEN [found |-> FALSE, text |-> <<>>]
       ELSE LET a == CHOOSE a \in hits : \A b \in hits : a <= b
                j == CHOOSE j \in ends(a) : \A i \in ends(a) : i <= j
            IN [found |-> TRUE, text |-> SubSeq(t, a, j + 8)]

\* re.search of an alternation of literals (without case): the leftmost
\* position where one of them matches, the earlier alternative first.
search_literals(t, lits) ==
    LET hits == {a \in 1..Len(t) : \E n \in DOMAIN lits : MatchesAtCI(t, a, lits[n])}
    IN IF hits = {} THEN [found |-> FALSE, text |-> <<>>]
       ELSE LET a == CHOOSE a \in hits : \A b \in hits : a <= b
                n == CHOOSE n \in DOMAIN lits :
                        /\ MatchesAtCI(t, a, lits[n])
                        /\ \A m \in 1..(n - 1) : ~MatchesAtCI(t, a, lits[m])
            IN [found |-> TRUE, text |-> SubSeq(t, a, a + Len(lits[n]) - 1)]

\* str.title(): a letter that follows a letter is lowered, any other letter
\* is raised.
title_case(s) ==
    [k \in DOMAIN s |->
        IF s[k] \notin Letter THEN s[k]
        ELSE IF k > 1 /\ s[k - 1] \in Letter THEN lower(<<s[k]>>)[1]
        ELSE upper(<<s[k]>>)[1]]

\* The first of the patterns, in the order of the list, that matches
contract_type_match(t) ==
    LET p1 == search_master_agreement(t)
        p2 == search_run_then(t, 1, <<"A", "g", "r", "e", "e", "m", "e", "n", "t">>)
        p3 == search_run_then(t, 1, <<"C", "o", "n", "t", "r", "a", "c", "t">>)
        p4 == search_run_then(t, 1, <<"L", "e", "a", "s", "e">>)
        p5 == search_literals(t, <<<<"N", "o", "n", "-", "D", "i", "s", "c", "l", "o", "s", "u", "r", "e", " ", "A", "g", "r", "e", "e", "m", "e", "n", "t">>,
                                   <<"N", "o", "n", " ", "D", "i", "s", "c", "l", "o", "s", "u", "r", "e", " ", "A", "g", "r", "e", "e", "m", "e", "n", "t">>, <<"N", "D", "A">>>>)
        p6 == search_literals(t, <<<<"S", "t", "a", "t", "e", "m", "e", "n", "t", " ", "o", "f", " ", "W", "o", "r", "k">>, <<"S", "O", "W">>>>)
        p7 == search_literals(t, <<<<"A", "m", "e", "n", "d", "m", "e", "n", "t">>, <<"A", "d", "d", "e", "n", "d", "u", "m">>>>)
    IN CASE p1.found -> p1 [] p2.found -> p2 [] p3.found -> p3 [] p4.found -> p4
         [] p5.found -> p5 [] p6.found -> p6 [] OTHER -> p7

\* derive_contract_type_from_title(title)
derive_contract_type_from_title(title) ==
    LET m == contract_type_match(strip(title)) IN
    IF m.found THEN title_case(strip(m.text)) ELSE <<"A", "g", "r", "e", "e", "m", "e", "n", "t">>

\* re.search(r'\b(AGREEMENT|CONTRACT|...|SOW)\b', ln, re.IGNORECASE)
has_agreement_keyword(ln) ==
    \E w \in {<<"A", "G", "R", "E", "E", "M", "E", "N", "T">>, <<"C", "O", "N", "T", "R", "A", "C", "T">>, <<"L", "E", "A", "S", "E">>, <<"A", "M", "E", "N", "D", "M", "E", "N", "T">>, <<"A", "D", "D", "E", "N", "D", "U", "M">>,
              <<"N", "D", "A">>, <<"S", "T", "A", "T", "E", "M", "E", "N", "T", " ", "O", "F", " ", "W", "O", "R", "K">>, <<"S", "O", "W">>} : ContainsWordCI(ln, w)

\* The position of the first element of q that P holds of (0 when none)
first_index(q, P(_)) ==
    LET hits == {k \in DOMAIN q : P(q[k])}
    IN IF hits = {} THEN 0 ELSE CHOOSE k \in hits : \A j \in hits : k <= j

\* guess_title_and_type(pages_lines): [title, contract_type]
guess_title_and_type(pages_lines) ==
    LET first_page == IF pages_lines # <<>> THEN pages_lines[1] ELSE <<>>
        candidates == SelectSeq(first_page, LAMBDA ln : strip(ln) # <<>>)
        head == SubSeq(candidates, 1,
                       IF Len(candidates) < TITLE_SCAN_LINES
                       THEN Len(candidates) ELSE TITLE_SCAN_LINES)
        k1 == first_index(head, LAMBDA ln : ~is_exhibit_header(ln)
                             /\ looks_like_title(ln) /\ has_agreement_keyword(ln))
        k2 == first_index(head, LAMBDA ln : ~is_exhibit_header(ln)
                             /\ looks_like_title(ln))
        k3 == first_index(candidates, LAMBDA ln : ~is_exhibit_header(ln))
        chosen == IF k1 > 0 THEN head[k1] ELSE IF k2 > 0 THEN head[k2]
                  ELSE candidates[k3]
    IN IF k1 = 0 /\ k2 = 0 /\ k3 = 0
       THEN [title |-> <<"A", "g", "r", "e", "e", "m", "e", "n", "t">>, contract_type |-> <<"A", "g", "r", "e", "e", "m", "e", "n", "t">>]
       ELSE [title |-> normalize_whitespace(strip(chosen)),
             contract_type |-> derive_contract_type_from_title(strip(chosen))]

---------------------------------------------------------------------------
(* rules_parser.py: segment_sections.  Its locals are the record           *)
(* [doc_lines, i, sections, current_section, known_title, rule]:           *)
(* current_section is the position in sections of the dict the name refers *)
(* to (0 for None), known_title is <<>> for None, and rule records which   *)
(* branch of the loop body the last line took.                             *)

\* doc_lines: the lines of all pages in order
RECURSIVE flatten(_, _)
flatten(pages_lines, k) ==
    IF k > Len(pages_lines) THEN <<>>
    ELSE pages_lines[k] \o flatten(pages_lines, k + 1)

\* start_section without its title
start_section_untitled(title, number_or_none) ==
    Section(StrV(<<>>), number_or_none, ListV(<<>>))

\* start_section(title, number): number is <<>> for None
start_section(title, number_or_none) ==
    Section(StrV(IF title # <<>> THEN normalize_whitespace(title) ELSE <<>>),
            number_or_none,
            ListV(<<>>))

\* start_section's result put in front of the list instead of appended.
open_section_in_front(st, title, number_or_none, rule) ==
    [st EXCEPT !.sections = <<start_section(title, number_or_none)>> \o @,
               !.current_section = 1,
               !.rule = rule]

\* current_section = start_section(...); sections.append(current_section)
open_section(st, title, number_or_none, rule) ==
    [st EXCEPT !.sections = Append(@, start_section(title, number_or_none)),
               !.current_section = Len(st.sections) + 1,
               !.rule = rule]

\* current_section["clauses"].append({"text": ..., "label": ..., "index": 0})
append_clause(st, text, label, rule) ==
    [st EXCEPT !.sections[st.current_section].clauses.v =
                   Append(@, Clause(StrV(text), StrV(label), IntV(0))),
               !.rule = rule]

\* re.sub(r'[.)]$', '', label_raw)
drop_last_punct(label_raw) ==
    IF label_raw # <<>> /\ label_raw[Len(label_raw)] \in {".", ")"}
    THEN SubSeq(label_raw, 1, Len(label_raw) - 1) ELSE label_raw

\* The numbered-header test of lines 319-331: the candidate pattern matches,
\* the number is not an integer outside 1..99, and what follows is titleish.
is_numbered_header(raw) ==
    /\ SECTION_HEADER_CANDIDATE_RE(raw)
    /\ LET num == rstrip_dot_paren(token_of(raw)) IN
         ~(all_digits(num) /\ ~is_small_integer_token(num))
    /\ is_titleish_header(strip(after_token(raw)))

\* The bare-header test of line 333
is_bare_header(raw) ==
    is_titleish_header(raw) /\ looks_valid_section_title(raw) /\ ~is_exhibit_header(raw)

\* Lines 343-375: a line that matches clause_re, the section is open
clause_line(st, raw) ==
    LET label_raw == token_of(raw)
        rest == strip(after_token(raw))
        num_token == drop_last_punct(label_raw)
        sp == split_short_heading(rest)
    IN IF all_digits(num_token) /\ is_short_title(rest)
       THEN open_section(st, rest, StrV(strip(num_token)), "int_heading")
       ELSE IF all_digits(num_token) /\ sp.head # <<>> /\ is_short_title(sp.head)
       THEN LET st1 == open_section(st, sp.head, StrV(strip(num_token)), "split_heading")
            IN IF sp.tail = <<>> THEN st1
               ELSE IF CLAUSE_LABEL_RE(sp.tail)
               THEN append_clause(st1,
                        normalize_whitespace(strip(after_token(sp.tail))),
                        normalize_whitespace(token_of(sp.tail)), "split_heading")
               ELSE append_clause(st1, normalize_whitespace(sp.tail), <<>>,
                                  "split_heading")
       ELSE append_clause(st, normalize_whitespace(rest),
                          normalize_whitespace(label_raw), "clause")

\* Every other line stored as a clause of its own.
continuation_line_new_clause(st, raw) ==
    append_clause(st, normalize_whitespace(raw), <<>>, "first_clause")

\* Lines 377-381: any other line
continuation_line(st, raw) ==
    LET cs == st.sections[st.current_section].clauses.v IN
    IF cs = <<>>
    THEN append_clause(st, normalize_whitespace(raw), <<>>, "first_clause")
    ELSE [st EXCEPT !.sections[st.current_section].clauses.v[Len(cs)].text =
                        StrV(normalize_whitespace(cs[Len(cs)].text.v \o <<" ">> \o raw)),
                    !.rule = "continuation"]

\* The implicit section opened without a title.
GENERAL_TITLE_missing == <<>>

\* start_section("General", None): the title of the implicit section
GENERAL_TITLE == <<"G", "e", "n", "e", "r", "a", "l">>

\* Header detection put after clause detection: the order of the two swapped.
header_first_swapped(raw) == ~CLAUSE_LABEL_RE(raw)

\* Whether the header tests of lines 319-337 are tried on this line (they
\* are tried on every line, before clause_re)
header_first(raw) == TRUE

\* The known title compared as it is written, case included.
is_known_title_line_exact(st, raw) ==
    st.known_title # <<>> /\ raw = strip(st.known_title)

\* Line 315: known_title and raw.upper() == known_title.strip().upper()
is_known_title_line(st, raw) ==
    st.known_title # <<>> /\ upper(raw) = upper(strip(st.known_title))

\* The body of "while i < N" for one line
segment_line(st, line) ==
    LET raw == strip(line) IN
    IF raw = <<>> \/ is_page_marker(raw) \/ is_exhibit_header(raw)
    THEN [st EXCEPT !.rule = "skip"]
    ELSE IF is_known_title_line(st, raw)
    THEN [st EXCEPT !.rule = "skip"]
    ELSE IF header_first(raw) /\ is_numbered_header(raw)
    THEN open_section(st, strip(after_token(raw)),
                      StrV(strip(rstrip_dot_paren(token_of(raw)))), "numbered_header")
    ELSE IF header_first(raw) /\ is_bare_header(raw)
    THEN open_section(st, raw, Null, "bare_header")
    ELSE LET st1 == IF st.current_section = 0
                    THEN open_section(st, GENERAL_TITLE, Null, st.rule)
                    ELSE st
         IN IF CLAUSE_LABEL_RE(raw) THEN clause_line(st1, raw)
            ELSE continuation_line(st1, raw)

\* Lines 385-387: cl["index"] = idx
reindex(sec) ==
    [sec EXCEPT !.clauses.v = [j \in DOMAIN @ |-> [@[j] EXCEPT !.index = IntV(j - 1)]]]

\* Line 389: [s for s in sections if (s["clauses"] or s["title"])]
segment_result(sections) ==
    SelectSeq([k \in DOMAIN sections |-> reindex(sections[k])],
              LAMBDA s : s.clauses.v # <<>> \/ s.title.v # <<>>)

segment_start(pages_lines, known_title) ==
    [doc_lines |-> flatten(pages_lines, 1), i |-> 1, sections |-> <<>>,
     current_section |-> 0, known_title |-> known_title, rule |-> "start"]

RECURSIVE segment_run(_)
segment_run(st) ==
    IF st.i > Len(st.doc_lines) THEN st
    ELSE Apply(segment_run,
               [segment_line(st, st.doc_lines[st.i]) EXCEPT !.i = st.i + 1])

\* segment_sections(lines_by_page, known_title)
segment_sections(pages_lines, known_title) ==
    segment_result(Apply(segment_run, segment_start(pages_lines, known_title)).sections)

---------------------------------------------------------------------------
(* The pages the rule-based parser is run on: every page of at most        *)
(* MaxLines of the lines below, and a few longer documents.                *)

MaxLines == 2

SampleLines ==
    { <<"1", ".", " ", "D", "E", "F", "I", "N", "I", "T", "I", "O", "N", "S">>,
      <<"(", "a", ")", " ", "F", "o", "o", " ", "m", "e", "a", "n", "s", " ", "b", "a", "r", ".">>,
      <<"(", "b", ")", " ", "B", "a", "z", " ", "m", "e", "a", "n", "s", " ", "q", "u", "x", ".">>,
      <<>>,
      <<"-", " ", "3", " ", "-">>,
      <<"E", "X", "H", "I", "B", "I", "T", " ", "A">>,
      <<"S", "E", "R", "V", "I", "C", "E", " ", "A", "G", "R", "E", "E", "M", "E", "N", "T">>,
      <<"A", "R", "T", "I", "C", "L", "E", " ", "O", "N", "E", " ", "T", "E", "R", "M", "S">>,
      <<"2", ".", " ", "P", "a", "y", "m", "e", "n", "t", " ", "T", "e", "r", "m", "s">>,
      <<"1", ".", " ", "D", "e", "f", "i", "n", "i", "t", "i", "o", "n", "s">>,
      <<"3", ".", " ", "F", "e", "e", "s", ":", " ", "t", "h", "e", " ", "B", "u", "y", "e", "r", " ", "s", "h", "a", "l", "l", " ", "p", "a", "y", ".">>,
      <<"4", ".", " ", "T", "e", "r", "m", ":", " ", "(", "a", ")", " ", "t", "h", "i", "s", " ", "s", "h", "a", "l", "l", " ", "l", "a", "s", "t">>,
      <<"a", "n", "d", " ", "c", "o", "n", "t", "i", "n", "u", "e", "s", " ", "h", "e", "r", "e">>,
      <<"1", ".", "1", " ", "T", "h", "e", " ", "S", "u", "p", "p", "l", "i", "e", "r", " ", "s", "h", "a", "l", "l", " ", "d", "e", "l", "i", "v", "e", "r", " ", "t", "h", "e", " ", "g", "o", "o", "d", "s", ".">>,
      <<"1", "0", "0", ".", " ", "B", "i", "g", " ", "N", "u", "m", "b", "e", "r", " ", "T", "i", "t", "l", "e">>,
      <<"P", "A", "G", "E", " ", "3">> }

\* "\n".join(q)
RECURSIVE join_lines(_)
join_lines(q) ==
    IF q = <<>> THEN <<>>
    ELSE IF Len(q) = 1 THEN q[1]
    ELSE q[1] \o <<"\n">> \o join_lines(Tail(q))

DefinitionsPage ==
    join_lines(<<<<"1", ".", " ", "D", "E", "F", "I", "N", "I", "T", "I", "O", "N", "S">>, <<"(", "a", ")", " ", "F", "o", "o", " ", "m", "e", "a", "n", "s", " ", "b", "a", "r", ".">>, <<"(", "b", ")", " ", "B", "a", "z", " ", "m", "e", "a", "n", "s", " ", "q", "u", "x", ".">>>>)

ExampleDocuments ==
    { <<DefinitionsPage>>,
      <<>>,
      <<join_lines(<<<<"S", "E", "R", "V", "I", "C", "E", " ", "A", "G", "R", "E", "E", "M", "E", "N", "T">>, <<"2", ".", " ", "P", "a", "y", "m", "e", "n", "t", " ", "T", "e", "r", "m", "s">>,
                     <<"1", ".", "1", " ", "T", "h", "e", " ", "S", "u", "p", "p", "l", "i", "e", "r", " ", "s", "h", "a", "l", "l", " ", "d", "e", "l", "i", "v", "e", "r", " ", "t", "h", "e", " ", "g", "o", "o", "d", "s", ".">>,
                     <<"a", "n", "d", " ", "c", "o", "n", "t", "i", "n", "u", "e", "s", " ", "h", "e", "r", "e">>>>),
        join_lines(<<<<"-", " ", "3", " ", "-">>, <<" ", " ", "w", "i", "t", "h", "i", "n", " ", "t", "e", "n", " ", "d", "a", "y", "s", ".", " ", " ">>, <<>>, <<>>,
                     <<"A", "R", "T", "I", "C", "L", "E", " ", "O", "N", "E", " ", "T", "E", "R", "M", "S">>>>)>>,
      <<join_lines(<<<<"M", "A", "S", "T", "E", "R", " ", "S", "E", "R", "V", "I", "C", "E", "S", " ", "A", "G", "R", "E", "E", "M", "E", "N", "T">>,
                     <<"T", "h", "i", "s", " ", "A", "g", "r", "e", "e", "m", "e", "n", "t", " ", "i", "s", " ", "e", "f", "f", "e", "c", "t", "i", "v", "e", " ", "a", "s", " ", "o", "f", " ", "J", "a", "n", "u", "a", "r", "y", " ", "5", ",", " ", "2", "0", "2", "4", ".">>,
                     <<"1", ".", " ", "D", "e", "f", "i", "n", "i", "t", "i", "o", "n", "s">>, <<"(", "a", ")", " ", "F", "o", "o", " ", "m", "e", "a", "n", "s", " ", "b", "a", "r", ".">>>>)>>,
      <<<<"T", "h", "i", "s", " ", "A", "g", "r", "e", "e", "m", "e", "n", "t", " ", "i", "s", " ", "e", "f", "f", "e", "c", "t", "i", "v", "e", " ", "a", "s", " ", "o", "f", " ", "J", "a", "n", "u", "a", "r", "y", " ", "5", ",", " ", "2", "0", "2", "4", ".">>>>,
      <<join_lines(<<<<"S", "U", "P", "P", "L", "Y", " ", "C", "O", "N", "T", "R", "A", "C", "T">>,
                     <<"D", "a", "t", "e", "d", " ", "a", "s", " ", "o", "f", " ", "1", "3", "/", "0", "2", "/", "2", "0", "2", "4", " ", "a", "n", "d", " ", "s", "i", "g", "n", "e", "d", " ", "2", "0", "2", "4", "-", "0", "3", "-", "0", "1", ".">>>>)>>,
      <<<<" ", " ">>, join_lines(<<<<>>, <<"5", " ", "M", "a", "r", "c", "h", ",", " ", "2", "0", "2", "3">>>>)>>,
      <<<<" ">>, <<>>>>,
      <<join_lines(<<<<"I", "V", ".", " ", "G", "E", "N", "E", "R", "A", "L", " ", "P", "R", "O", "V", "I", "S", "I", "O", "N", "S">>, <<"(", "a", ")", " ", "f", "i", "r", "s", "t", " ", "i", "t", "e", "m">>, <<"(", "b", ")", " ", "s", "e", "c", "o", "n", "d", " ", "i", "t", "e", "m">>,
                     <<"m", "o", "r", "e", " ", "t", "e", "x", "t", " ", "h", "e", "r", "e">>, <<"A", ".", " ", "S", "c", "o", "p", "e">>, <<"p", "l", "a", "i", "n", " ", "w", "o", "r", "d", "s", " ", "f", "o", "l", "l", "o", "w">>,
                     <<"1", "0", "0", ".", " ", "B", "I", "G", " ", "N", "U", "M", "B", "E", "R", " ", "T", "I", "T", "L", "E">>, <<"1", "2", " ", "A", "n", "n", "u", "a", "l", " ", "F", "e", "e", "s", " ", "D", "u", "e">>,
                     <<"(", "c", ")", " ", "t", "h", "i", "r", "d", " ", "i", "t", "e", "m">>>>)>>,
      <<<<"S", "i", "g", "n", "e", "d", " ", "2", "0", "2", "4", "-", "0", "3", "-", "0", "1", ",", " ", "e", "f", "f", "e", "c", "t", "i", "v", "e", " ", "a", "s", " ", "o", "f", " ", "J", "a", "n", "u", "a", "r", "y", " ", "5", ",", " ", "2", "0", "2", "4", ".">>>>,
      <<<<"M", "a", "d", "e", " ", "o", "n", " ", "F", "e", "b", "r", "u", "a", "r", "y", " ", "3", "0", ",", " ", "2", "0", "2", "4", ".">>, <<" ">>, <<>>, <<"A", "m", "e", "n", "d", "e", "d", " ", "o", "n", " ", "M", "a", "r", "c", "h", " ", "1", ",", " ", "2", "0", "2", "4", ".">>>>,
      <<<<"N", "o", " ", "d", "a", "t", "e", " ", "h", "e", "r", "e", ".">>, <<>>, <<>>, <<"R", "e", "n", "e", "w", "e", "d", " ", "o", "n", " ", "2", "0", "2", "5", "-", "0", "6", "-", "3", "0", ".">>>>,
      <<join_lines(<<<<"m", "a", "d", "e", " ", "b", "e", "t", "w", "e", "e", "n", " ", "t", "h", "e", " ", "p", "a", "r", "t", "i", "e", "s">>, <<"M", "a", "s", "t", "e", "r", " ", "S", "e", "r", "v", "i", "c", "e", "s", " ", "A", "g", "r", "e", "e", "m", "e", "n", "t">>,
                     <<"S", "C", "H", "E", "D", "U", "L", "E", " ", "1">>>>)>>,
      <<join_lines(<<<<"A", "N", "N", "E", "X", " ", "B">>, <<"E", "x", "h", "i", "b", "i", "t", " ", "C", "-", "1">>>>)>> }

InputPages ==
    {<<join_lines(q)>> : q \in SeqsUpTo(SampleLines, MaxLines) \ {<<>>}}
        \cup ExampleDocuments

\* known_title as a caller of segment_sections may pass it: None, or a title
KnownTitles == {<<>>, <<"S", "e", "r", "v", "i", "c", "e", " ", "A", "g", "r", "e", "e", "m", "e", "n", "t">>}

---------------------------------------------------------------------------
(* SpecSegment: segment_sections run line by line on the split pages.      *)

NoFix ==
    /\ final_output = Unset /\ fixed = Unset /\ refixed = Unset
    /\ report_in = Unset /\ report_out = Unset /\ assembled = Unset

InitSegment ==
    /\ pc = "segment"
    /\ DATEUTIL_AVAILABLE = TRUE
    /\ pages_text \in InputPages
    /\ lines_by_page = split_into_lines_by_page(pages_text)
    /\ \E kt \in KnownTitles : seg = segment_start(lines_by_page, kt)
    /\ title_type = Unset /\ effective_date = Unset
    /\ NoFix /\ NoMain

\* One turn of the loop "while i < N"
SegmentLine ==
    /\ pc = "segment" /\ seg.i <= Len(seg.doc_lines)
    /\ seg' = [segment_line(seg, seg.doc_lines[seg.i]) EXCEPT !.i = seg.i + 1]
    /\ UNCHANGED <<pc, DATEUTIL_AVAILABLE, pages_text, lines_by_page, title_type,
                   effective_date, final_output, fixed, refixed, report_in,
                   report_out, assembled, output_json, exit_status, calls>>

\* The loop has ended: indices are recomputed, sections filtered, and the
\* list is returned
SegmentReturn ==
    /\ pc = "segment" /\ seg.i > Len(seg.doc_lines)
    /\ seg' = [seg EXCEPT !.sections = segment_result(seg.sections), !.rule = "return"]
    /\ pc' = "segmented"
    /\ UNCHANGED <<DATEUTIL_AVAILABLE, pages_text, lines_by_page, title_type,
                   effective_date, final_output, fixed, refixed, report_in,
                   report_out, assembled, output_json, exit_status, calls>>

NextSegment == SegmentLine \/ SegmentReturn

SpecSegment == InitSegment /\ [][NextSegment]_vars

---------------------------------------------------------------------------
(* rules_parser.py: DATE_PATTERNS, try_parse_date_to_iso and               *)
(* extract_effective_date.  Each pattern is an operator that tells where a *)
(* match that starts at position a ends (0 when none starts there).        *)

MONTHS ==
    << <<"J", "a", "n", "u", "a", "r", "y">>, <<"F", "e", "b", "r", "u", "a", "r", "y">>, <<"M", "a", "r", "c", "h">>, <<"A", "p", "r", "i", "l">>, <<"M", "a", "y">>, <<"J", "u", "n", "e">>,
       <<"J", "u", "l", "y">>, <<"A", "u", "g", "u", "s", "t">>, <<"S", "e", "p", "t", "e", "m", "b", "e", "r">>, <<"O", "c", "t", "o", "b", "e", "r">>, <<"N", "o", "v", "e", "m", "b", "e", "r">>,
       <<"D", "e", "c", "e", "m", "b", "e", "r">> >>

\* Which month name (1..12) t carries at position a, without case; 0 for none
month_at(t, a) ==
    IF \E n \in DOMAIN MONTHS : MatchesAtCI(t, a, MONTHS[n])
    THEN CHOOSE n \in DOMAIN MONTHS : MatchesAtCI(t, a, MONTHS[n])
    ELSE 0

\* \d{4} at position e
four_digits_at(t, e) == e + 3 <= Len(t) /\ \A j \in e..(e + 3) : t[j] \in Digit

\* DATE_PATTERNS[0]: (month)\s+\d{1,2},\s+\d{4}
month_day_year_end(t, a) ==
    LET n == month_at(t, a)
        b == a + (IF n = 0 THEN 0 ELSE Len(MONTHS[n]))
        c == SkipWhile(t, b, Space)
        d == SkipWhile(t, c, Digit)
        e == SkipWhile(t, d + 1, Space)
    IN IF /\ n # 0 /\ c > b /\ (d - c) \in {1, 2}
          /\ d <= Len(t) /\ t[d] = "," /\ e > d + 1 /\ four_digits_at(t, e)
       THEN e + 4 ELSE 0

\* DATE_PATTERNS[1]: \d{1,2}\s+(month),?\s+\d{4}
day_month_year_end(t, a) ==
    LET d == SkipWhile(t, a, Digit)
        c == SkipWhile(t, d, Space)
        n == month_at(t, c)
        b == c + (IF n = 0 THEN 0 ELSE Len(MONTHS[n]))
        b2 == IF b <= Len(t) /\ t[b] = "," THEN b + 1 ELSE b
        e == SkipWhile(t, b2, Space)
    IN IF /\ (d - a) \in {1, 2} /\ c > d /\ n # 0 /\ e > b2 /\ four_digits_at(t, e)
       THEN e + 4 ELSE 0

\* DATE_PATTERNS[2]: \b\d{4}-\d{2}-\d{2}\b
iso_date_end(t, a) ==
    IF /\ a + 9 <= Len(t) /\ iso_shape(SubSeq(t, a, a + 9))
       /\ WordBoundary(t, a) /\ WordBoundary(t, a + 10)
    THEN a + 10 ELSE 0

\* DATE_PATTERNS[3]: \b\d{1,2}/\d{1,2}/\d{2,4}\b
slash_date_end(t, a) ==
    LET d1 == SkipWhile(t, a, Digit)
        d2 == SkipWhile(t, d1 + 1, Digit)
        d3 == SkipWhile(t, d2 + 1, Digit)
    IN IF /\ WordBoundary(t, a) /\ (d1 - a) \in {1, 2}
          /\ d1 <= Len(t) /\ t[d1] = "/" /\ (d2 - d1 - 1) \in {1, 2}
          /\ d2 <= Len(t) /\ t[d2] = "/" /\ (d3 - d2 - 1) \in {2, 3, 4}
          /\ WordBoundary(t, d3)
       THEN d3 ELSE 0

\* Where a match of DATE_PATTERNS[n - 1] that starts at a ends
pattern_end(n, t, a) ==
    CASE n = 1 -> month_day_year_end(t, a)
      [] n = 2 -> day_month_year_end(t, a)
      [] n = 3 -> iso_date_end(t, a)
      [] OTHER -> slash_date_end(t, a)

\* re.search(pat, t[from..]): the leftmost start of a match, 0 when none
search_from(n, t, from) ==
    LET hits == {a \in from..Len(t) : pattern_end(n, t, a) > 0}
    IN IF hits = {} THEN 0 ELSE CHOOSE a \in hits : \A b \in hits : a <= b

\* [dm.group(0) for dm in re.finditer(pat, t)]: the matches from left to
\* right, each search resuming where the match before it ended
RECURSIVE finditer(_, _, _)
finditer(n, t, from) ==
    LET rest(m) == IF m.a = 0 THEN <<>>
                   ELSE <<SubSeq(t, m.a, m.e - 1)>> \o finditer(n, t, m.e)
        ending(a) == [a |-> a, e |-> IF a = 0 THEN 0 ELSE pattern_end(n, t, a)]
    IN Apply(rest, Apply(ending, search_from(n, t, from)))

\* The year the clock shows when dateutil resolves a year of two digits
CLOCK_YEAR == 2026

\* dateutil's convertyear for a year written with two digits
two_digit_year(yy) ==
    IF 2000 + yy >= CLOCK_YEAR + 50 THEN 1900 + yy ELSE 2000 + yy

days_in_month(y, m) ==
    IF m \in {4, 6, 9, 11} THEN 30
    ELSE IF m # 2 THEN 31
    ELSE IF (y % 4 = 0 /\ y % 100 # 0) \/ y % 400 = 0 THEN 29 ELSE 28

\* A number as n digits at least, zeros in front
pad(n, x) ==
    LET digits == NatToStr(x) IN
    [k \in 1..(n - Len(digits)) |-> "0"] \o digits

\* dt.date().isoformat()
isoformat(y, m, d) == pad(4, y) \o <<"-">> \o pad(2, m) \o <<"-">> \o pad(2, d)

\* date_parser.parse(s, dayfirst=False, yearfirst=False, fuzzy=True) on a
\* match of DATE_PATTERNS[n - 1], as [year, month, day]: a month name fixes
\* the month and a number of more than two digits the year; a leading year
\* is followed by month and day; of three numbers that end in the year the
\* first is the month unless it exceeds 12, and then it is the day.
dateutil_fields(n, s) ==
    CASE n = 1 ->
           LET c == SkipWhile(s, Len(MONTHS[month_at(s, 1)]) + 1, Space)
           IN [year |-> StrToNat(SubSeq(s, Len(s) - 3, Len(s))),
               month |-> month_at(s, 1),
               day |-> StrToNat(SubSeq(s, c, SkipWhile(s, c, Digit) - 1))]
      [] n = 2 ->
           LET d == SkipWhile(s, 1, Digit)
           IN [year |-> StrToNat(SubSeq(s, Len(s) - 3, Len(s))),
               month |-> month_at(s, SkipWhile(s, d, Space)),
               day |-> StrToNat(SubSeq(s, 1, d - 1))]
      [] n = 3 ->
           [year |-> StrToNat(SubSeq(s, 1, 4)),
            month |-> StrToNat(SubSeq(s, 6, 7)),
            day |-> StrToNat(SubSeq(s, 9, 10))]
      [] OTHER ->
           LET d1 == SkipWhile(s, 1, Digit)
               d2 == SkipWhile(s, d1 + 1, Digit)
               first == StrToNat(SubSeq(s, 1, d1 - 1))
               second == StrToNat(SubSeq(s, d1 + 1, d2 - 1))
               last == StrToNat(SubSeq(s, d2 + 1, Len(s)))
               year == IF Len(s) - d2 = 2 THEN two_digit_year(last) ELSE last
           IN IF first > 31 /\ Len(s) - d2 = 2
              THEN [year |-> two_digit_year(first), month |-> second, day |-> last]
              ELSE IF first > 31
              THEN [year |-> first, month |-> second, day |-> last]
              ELSE IF first > 12
              THEN [year |-> year, month |-> second, day |-> first]
              ELSE [year |-> year, month |-> first, day |-> second]

\* The dateutil branch of try_parse_date_to_iso: the ISO form, or None when
\* parse raises because the fields are no date of the calendar
dateutil_to_iso(n, s) ==
    LET f == dateutil_fields(n, s) IN
    IF /\ f.year \in 1..9999 /\ f.month \in 1..12
       /\ f.day \in 1..days_in_month(f.year, f.month)
    THEN StrV(isoformat(f.year, f.month, f.day)) ELSE Null

\* try_parse_date_to_iso without its fallback branch: what the function
\* would return if the import of dateutil could not fail
try_parse_always_dateutil(n, cand, available) ==
    IF strip(cand) = <<>> THEN Null ELSE dateutil_to_iso(n, strip(cand))

\* try_parse_date_to_iso(s) for a match s of DATE_PATTERNS[n - 1]
try_parse_date_to_iso(n, cand, available) ==
    LET s == strip(cand) IN
    IF s = <<>> THEN Null
    ELSE IF available THEN dateutil_to_iso(n, s)
    ELSE IF re_match_iso(s) THEN StrV(s) ELSE Null

\* The first element of q that parses to a truthy value, as that value
first_parsed(q, available) ==
    LET k == first_index(q, LAMBDA c : Truthy(try_parse_date_to_iso(c.n, c.s, available)))
    IN IF k = 0 THEN Null ELSE try_parse_date_to_iso(q[k].n, q[k].s, available)

\* [dm.group(0) ...] for one pattern, each match with its pattern
matches_of(n, t) ==
    Apply(LAMBDA found : [k \in DOMAIN found |-> [n |-> n, s |-> found[k]]],
          finditer(n, t, 1))

\* date_candidates: the matches of the first pattern, then of the second, ...
date_candidates(t) ==
    matches_of(1, t) \o matches_of(2, t) \o matches_of(3, t) \o matches_of(4, t)

\* re.search(pat, t) as a list: the first match of the pattern, if any
first_match_of(n, t) ==
    Apply(LAMBDA a : IF a = 0 THEN <<>>
                     ELSE <<[n |-> n, s |-> SubSeq(t, a, pattern_end(n, t, a) - 1)]>>,
          search_from(n, t, 1))

\* The second loop: re.search of each pattern over the whole document
first_matches(t) ==
    first_match_of(1, t) \o first_match_of(2, t) \o first_match_of(3, t)
        \o first_match_of(4, t)

\* The body of extract_effective_date once full_text and full_doc are built
extract_from_texts(x, available) ==
    Apply(LAMBDA early :
              IF Truthy(early) THEN early
              ELSE Apply(LAMBDA q : first_parsed(q, available), first_matches(x.full_doc)),
          Apply(LAMBDA q : first_parsed(q, available), date_candidates(x.full_text)))

\* extract_effective_date(pages_text)
extract_effective_date(pages, available) ==
    Apply(LAMBDA x : extract_from_texts(x, available),
          [full_text |-> join_lines(SubSeq(pages, 1, IF Len(pages) < 3 THEN Len(pages) ELSE 3)),
           full_doc |-> join_lines(pages)])

\* parse_pdf_to_contract(pages_text)
parse_pdf_to_contract(pages, available) ==
    Apply(LAMBDA lines :
        Apply(LAMBDA tt :
            Apply(LAMBDA r : assemble_output_json(StrV(tt.title), StrV(tt.contract_type),
                                                  r.date, ListV(r.sections)).value,
                  [date |-> extract_effective_date(pages, available),
                   sections |-> segment_sections(lines, tt.title)]),
            guess_title_and_type(lines)),
        split_into_lines_by_page(pages))

---------------------------------------------------------------------------
(* SpecRules: parse_pdf_to_contract step by step, and then the document-   *)
(* level operations of SpecFix on the document it returns.                 *)

InitRules ==
    /\ pc = "pages"
    /\ DATEUTIL_AVAILABLE \in BOOLEAN
    /\ pages_text \in InputPages
    /\ lines_by_page = <<>> /\ title_type = Unset /\ seg = Unset
    /\ effective_date = Unset
    /\ NoFix /\ NoMain

\* lines_by_page = split_into_lines_by_page(pages_text)
SplitLines ==
    /\ pc = "pages"
    /\ lines_by_page' = split_into_lines_by_page(pages_text)
    /\ pc' = "lines"
    /\ UNCHANGED <<DATEUTIL_AVAILABLE, pages_text, title_type, seg, effective_date,
                   final_output, fixed, refixed, report_in, report_out, assembled,
                   output_json, exit_status, calls>>

\* title, contract_type = guess_title_and_type(lines_by_page), and the entry
\* into segment_sections(lines_by_page, known_title=title)
GuessTitle ==
    /\ pc = "lines"
    /\ title_type' = guess_title_and_type(lines_by_page)
    /\ seg' = segment_start(lines_by_page, title_type'.title)
    /\ pc' = "segment"
    /\ UNCHANGED <<DATEUTIL_AVAILABLE, pages_text, lines_by_page, effective_date,
                   final_output, fixed, refixed, report_in, report_out, assembled,
                   output_json, exit_status, calls>>

\* effective_date = extract_effective_date(pages_text)
ExtractDate ==
    /\ pc = "segmented" /\ title_type # Unset
    /\ effective_date' = extract_effective_date(pages_text, DATEUTIL_AVAILABLE)
    /\ pc' = "dated"
    /\ UNCHANGED <<DATEUTIL_AVAILABLE, pages_text, lines_by_page, title_type, seg,
                   final_output, fixed, refixed, report_in, report_out, assembled,
                   output_json, exit_status, calls>>

\* return assemble_output_json(title, contract_type, effective_date, sections)
AssembleRules ==
    /\ pc = "dated"
    /\ final_output' = assemble_output_json(StrV(title_type.title),
                           StrV(title_type.contract_type), effective_date,
                           ListV(seg.sections)).value
    /\ pc' = "input"
    /\ UNCHANGED <<DATEUTIL_AVAILABLE, pages_text, lines_by_page, title_type, seg,
                   effective_date, fixed, refixed, report_in, report_out, assembled,
                   output_json, exit_status, calls>>

NextRules ==
    \/ SplitLines \/ GuessTitle \/ SegmentLine \/ SegmentReturn
    \/ ExtractDate \/ AssembleRules
    \/ ValidateInput \/ AutoFix \/ ValidateFixed \/ AutoFixAgain \/ Assemble

SpecRules == InitRules /\ [][NextRules]_vars

---------------------------------------------------------------------------
(* Spec: main.py, from the extracted page texts to the process's exit.     *)

\* Line 34: the document main substitutes when no page holds text
PlaceholderDocument ==
    Contract(StrV(<<"E", "x", "t", "r", "a", "c", "t", "i", "o", "n", " ", "F", "a", "i", "l", "e", "d">>), StrV(<<"U", "n", "k", "n", "o", "w", "n">>), Null, ListV(<<>>))

\* Line 32: any(page.strip() for page in pages_text)
any_text(pages) == \E k \in DOMAIN pages : strip(pages[k]) # <<>>

\* What parse_with_llm may hand back when it does not return None: the dump
\* of the chain's result, which main takes as it comes.
LLMDocuments == CandidateDocuments

\* What the file holds after a write that raised once the file was opened
Truncated == [t |-> "truncated"]

MainPages == ExampleDocuments

Init ==
    /\ pc = "start"
    /\ DATEUTIL_AVAILABLE \in BOOLEAN
    /\ pages_text \in MainPages
    /\ lines_by_page = <<>> /\ title_type = Unset /\ seg = Unset
    /\ effective_date = Unset
    /\ NoFix /\ NoMain

\* Lines 32-34 without the test of line 32: the rule-based parser is run on
\* the blank pages and its result is the candidate.
UsePlaceholderViaRules ==
    /\ pc = "start" /\ ~any_text(pages_text)
    /\ final_output' = parse_pdf_to_contract(pages_text, DATEUTIL_AVAILABLE)
    /\ calls' = calls \cup {"parse_pdf_to_contract"}
    /\ pc' = "autofix"
    /\ UNCHANGED <<DATEUTIL_AVAILABLE, pages_text, lines_by_page, title_type, seg,
                   effective_date, fixed, refixed, report_in, report_out, assembled,
                   output_json, exit_status>>

\* Lines 32-34: no usable text, the placeholder is the candidate
UsePlaceholder ==
    /\ pc = "start" /\ ~any_text(pages_text)
    /\ final_output' = PlaceholderDocument
    /\ pc' = "autofix"
    /\ UNCHANGED <<DATEUTIL_AVAILABLE, pages_text, lines_by_page, title_type, seg,
                   effective_date, fixed, refixed, report_in, report_out, assembled,
                   output_json, exit_status, calls>>

\* Line 50: final_output = parse_with_llm(full_text_for_llm)
ParseWithLLM ==
    /\ pc = "start" /\ any_text(pages_text)
    /\ final_output' \in {Null} \cup LLMDocuments
    /\ calls' = calls \cup {"parse_with_llm"}
    /\ pc' = IF final_output' = Null THEN "fallback" ELSE "autofix"
    /\ UNCHANGED <<DATEUTIL_AVAILABLE, pages_text, lines_by_page, title_type, seg,
                   effective_date, fixed, refixed, report_in, report_out, assembled,
                   output_json, exit_status>>

\* Lines 56-59: final_output = parse_pdf_to_contract(pages_text)
RuleFallback ==
    /\ pc = "fallback"
    /\ final_output' = parse_pdf_to_contract(pages_text, DATEUTIL_AVAILABLE)
    /\ calls' = calls \cup {"parse_pdf_to_contract"}
    /\ pc' = "autofix"
    /\ UNCHANGED <<DATEUTIL_AVAILABLE, pages_text, lines_by_page, title_type, seg,
                   effective_date, fixed, refixed, report_in, report_out, assembled,
                   output_json, exit_status>>

\* Lines 61-64: final_output_cleaned = clean_and_validate_contract(final_output)
MainAutoFix ==
    /\ pc = "autofix"
    /\ LET r == clean_and_validate_contract(final_output) IN
         /\ fixed' = [raised |-> r.raised, value |-> IF r.raised THEN Unset ELSE r.value]
         /\ final_output' = r.data
         /\ pc' = IF r.raised THEN "write_raw" ELSE "write_cleaned"
    /\ calls' = calls \cup {"clean_and_validate_contract"}
    /\ UNCHANGED <<DATEUTIL_AVAILABLE, pages_text, lines_by_page, title_type, seg,
                   effective_date, refixed, report_in, report_out, assembled,
                   output_json, exit_status>>

\* The except branch without its sys.exit: the run goes on to line 77.
WriteRawAndGoOn ==
    /\ pc = "write_raw"
    /\ output_json' = final_output
    /\ calls' = calls \cup {"write_raw"}
    /\ pc' = "write_cleaned"
    /\ UNCHANGED <<DATEUTIL_AVAILABLE, pages_text, lines_by_page, title_type, seg,
                   effective_date, final_output, fixed, refixed, report_in, report_out,
                   assembled, exit_status>>

\* Lines 65-74: the raw candidate is dumped to the output path; whether or
\* not open and json.dump succeed, the process exits with status 1
WriteRaw ==
    /\ pc = "write_raw"
    /\ \/ output_json' = final_output
       \/ output_json' \in {output_json, Truncated}
    /\ exit_status' = 1
    /\ calls' = calls \cup {"write_raw"}
    /\ pc' = "exited"
    /\ UNCHANGED <<DATEUTIL_AVAILABLE, pages_text, lines_by_page, title_type, seg,
                   effective_date, final_output, fixed, refixed, report_in, report_out,
                   assembled>>

\* Lines 77-84: the cleaned document is dumped to the output path; main
\* returns (status 0) unless the write raises (status 1)
WriteCleaned ==
    /\ pc = "write_cleaned"
    /\ \/ output_json' = fixed.value /\ exit_status' = 0
       \/ output_json' \in {output_json, Truncated} /\ exit_status' = 1
    /\ calls' = calls \cup {"write_cleaned"}
    /\ pc' = "exited"
    /\ UNCHANGED <<DATEUTIL_AVAILABLE, pages_text, lines_by_page, title_type, seg,
                   effective_date, final_output, fixed, refixed, report_in, report_out,
                   assembled>>

\* grader.py run on the file the process left behind
GradeOutput ==
    /\ pc = "exited" /\ output_json \notin {Unset, Truncated}
    /\ report_out' = is_valid_against_pydantic_like_rules(output_json)
    /\ pc' = "graded"
    /\ UNCHANGED <<DATEUTIL_AVAILABLE, pages_text, lines_by_page, title_type, seg,
                   effective_date, final_output, fixed, refixed, report_in,
                   assembled, output_json, exit_status, calls>>

Next ==
    \/ UsePlaceholder \/ ParseWithLLM \/ RuleFallback \/ MainAutoFix
    \/ WriteRaw \/ WriteCleaned \/ GradeOutput

Spec == Init /\ [][Next]_vars

---------------------------------------------------------------------------
(* Properties of segment_sections (SpecSegment), of the rule-based         *)
(* pipeline (SpecRules) and of main (Spec).                                *)

\* The section the specification gives for the page DefinitionsPage
DefinitionsSection ==
    Section(StrV(<<"D", "E", "F", "I", "N", "I", "T", "I", "O", "N", "S">>), StrV(<<"1">>),
            ListV(<<Clause(StrV(<<"F", "o", "o", " ", "m", "e", "a", "n", "s", " ", "b", "a", "r", ".">>), StrV(<<"(", "a", ")">>), IntV(0)),
                    Clause(StrV(<<"B", "a", "z", " ", "m", "e", "a", "n", "s", " ", "q", "u", "x", ".">>), StrV(<<"(", "b", ")">>), IntV(1))>>))

\* C5 as stated: segment_sections on the single page "1. DEFINITIONS\n(a) Foo
\* means bar.\n(b) Baz means qux." with no known title returns exactly one
\* section, titled "DEFINITIONS" with number "1", holding the clauses (a) and
\* (b) with indices 0 and 1.
C5_DefinitionsPage ==
    (pc = "segmented" /\ pages_text = <<DefinitionsPage>> /\ seg.known_title = <<>>)
        => seg.sections = <<DefinitionsSection>>

\* C5 fails here: what segment_sections returns for that page is one section
\* whose title is the whole header line and whose number is null.
C5_Witness ==
    /\ pc = "segmented" /\ pages_text = <<DefinitionsPage>> /\ seg.known_title = <<>>
    /\ seg.sections =
          <<Section(StrV(<<"1", ".", " ", "D", "E", "F", "I", "N", "I", "T", "I", "O", "N", "S">>), Null, DefinitionsSection.clauses)>>

\* C6: for page texts with at least one non-blank page, the document that
\* the rule-based pipeline assembles passes the strict check once the
\* auto-fixer has run on it: passed is true and no violation is listed.
C6_PipelineOutputPasses ==
    (pc \in {"validated", "refixed", "assembled"} /\ any_text(pages_text))
        => /\ ~fixed.raised
           /\ report_out.passed /\ report_out.errs = <<>>

\* The pipeline ran on a non-blank document for which assemble_output_json
\* emitted a section without clauses next to one with clauses, and the
\* strict check of the auto-fixed document has been made.
C6_Witness ==
    /\ pc = "validated" /\ any_text(pages_text)
    /\ HasEmptySection(final_output)
    /\ fixed.value.sections.v # <<>>
    /\ report_out.passed

\* The single page of C9
CuePage == <<<<"T", "h", "i", "s", " ", "A", "g", "r", "e", "e", "m", "e", "n", "t", " ", "i", "s", " ", "e", "f", "f", "e", "c", "t", "i", "v", "e", " ", "a", "s", " ", "o", "f", " ", "J", "a", "n", "u", "a", "r", "y", " ", "5", ",", " ", "2", "0", "2", "4", ".">>>>

\* C9 as stated: extract_effective_date on the single page "This Agreement
\* is effective as of January 5, 2024." returns "2024-01-05".
C9_CueDateExtracted ==
    (effective_date # Unset /\ pages_text = CuePage)
        => effective_date = StrV(<<"2", "0", "2", "4", "-", "0", "1", "-", "0", "5">>)

\* C9, what the code does on that page: extract_effective_date returns
\* "2024-01-05" when dateutil was imported, and null when it was not (without
\* dateutil only a match that is already YYYY-MM-DD is returned).
C9_CueDateNeedsDateutil ==
    (effective_date # Unset /\ pages_text = CuePage)
        => effective_date = IF DATEUTIL_AVAILABLE THEN StrV(<<"2", "0", "2", "4", "-", "0", "1", "-", "0", "5">>) ELSE Null

\* C9 fails here: dateutil was not imported and extract_effective_date has
\* returned null for the page of C9.
C9_Witness ==
    /\ pages_text = CuePage /\ ~DATEUTIL_AVAILABLE
    /\ effective_date = Null

\* The run has ended (the grader may have read its output since)
Ended == pc \in {"exited", "graded"}

C11_BlankPagesGivePlaceholder ==
    ~any_text(pages_text) =>
        /\ "parse_with_llm" \notin calls /\ "parse_pdf_to_contract" \notin calls
        /\ pc \notin {"fallback", "write_raw"}
        /\ pc # "start" => final_output = PlaceholderDocument
        /\ fixed # Unset => ~fixed.raised /\ fixed.value = PlaceholderDocument
        /\ output_json \in {Unset, Truncated, PlaceholderDocument}
        /\ (Ended /\ exit_status = 0) => output_json = PlaceholderDocument
        /\ pc = "graded" => report_out.passed /\ report_out.errs = <<>>

\* A run on pages that exist but hold only white space has written the
\* placeholder, and the strict check has accepted the written file.
C11_Witness ==
    /\ pc = "graded" /\ pages_text # <<>> /\ ~any_text(pages_text)
    /\ output_json = PlaceholderDocument /\ exit_status = 0
    /\ report_out.passed

\* The number of clauses an input section hands to the assembler: those of its
\* list, none when the key is missing or the value is an empty str.
InputClauseCount(s) == IF s.clauses.t = "list" THEN Len(s.clauses.v) ELSE 0

\* The title of an input section as the assembler normalises it.
InputTitle(s) ==
    IF s.title.t = "str" THEN strip(sub_ws(s.title.v)) ELSE <<>>

\* C12: when assemble_output_json returns for a list of sections, the
\* output holds as many sections as the input, and its k-th section carries
\* the normalised title and the number of clauses of the k-th input section,
\* sections without clauses (empty or missing list) included.
C12_AssembleKeepsSections ==
    (assembled # Unset /\ ~assembled.raised /\ final_output.sections.t = "list")
        => LET q == final_output.sections.v
               out == assembled.value.sections.v
           IN /\ Len(out) = Len(q)
              /\ \A k \in DOMAIN q :
                    /\ out[k].title = StrV(InputTitle(q[k]))
                    /\ Len(out[k].clauses.v) = InputClauseCount(q[k])

\* assemble_output_json returned for two sections with different titles, one
\* of them without clauses.
C12_Witness ==
    /\ assembled # Unset /\ ~assembled.raised /\ final_output.sections.t = "list"
    /\ Len(final_output.sections.v) = 2
    /\ final_output.sections.v[1].title # final_output.sections.v[2].title
    /\ HasEmptySection(final_output)

\* The line the segmenter's loop is about to take, stripped.
NextRaw == strip(seg.doc_lines[seg.i])

\* A step of the loop "while i < N" that takes one line.
TakesLine == pc = "segment" /\ pc' = "segment" /\ seg.i <= Len(seg.doc_lines)

\* A line the segmenter skips: blank, a page number, an exhibit, schedule or
\* annex header, or the known title of the document (compared without case).
SkippedLine(raw) ==
    \/ raw = <<>> \/ is_page_marker(raw) \/ is_exhibit_header(raw)
    \/ seg.known_title # <<>> /\ upper(raw) = upper(strip(seg.known_title))

\* A title-style phrase: not empty, at most 120 characters, no clause-verb
\* cue, and mostly capitalised (by letters or by words); any number of words.
TitleStylePhrase(p) ==
    LET words == split_words(p)
        letters == letters_of(p)
    IN /\ p # <<>> /\ Len(p) <= MAX_TITLE_LEN
       /\ ~VERBISH_RE(p)
       /\ \/ Len(letters) >= MIN_RATIO_LETTERS
             /\ ratio_at_least_080(count_upper(letters), Len(letters))
          \/ ratio_at_least_080(
                 Cardinality({k \in DOMAIN words : words[k][1] \in UpperCase}),
                 Len(words))

\* A leading numbering token followed by a title-style phrase.
NumberedTitleLine(raw) ==
    SECTION_HEADER_CANDIDATE_RE(raw) /\ TitleStylePhrase(strip(after_token(raw)))

\* C13 as stated: every line that is not skipped and consists of a numbering
\* token followed by a title-style phrase, of any word count and with any
\* integer token, opens a new section whose number is the token without its
\* trailing dot or parenthesis and whose title is the phrase.
C13_NumberedHeaderOpensSection ==
    [][(TakesLine /\ ~SkippedLine(NextRaw) /\ NumberedTitleLine(NextRaw))
          => /\ seg'.sections =
                   Append(seg.sections,
                          Section(StrV(strip(after_token(NextRaw))),
                                  StrV(rstrip_dot_paren(token_of(NextRaw))),
                                  ListV(<<>>)))
             /\ seg'.current_section = Len(seg'.sections)]_vars

\* C13 fails here: the line "1. DEFINITIONS", a numbering token and a
\* one-word phrase in capitals, has just been taken by the bare-header rule,
\* which opened a section titled with the whole line and without a number.
C13_Witness ==
    /\ pc = "segment" /\ seg.i > 1
    /\ strip(seg.doc_lines[seg.i - 1]) = <<"1", ".", " ", "D", "E", "F", "I", "N", "I", "T", "I", "O", "N", "S">>
    /\ seg.rule = "bare_header"
    /\ seg.sections[Len(seg.sections)] = Section(StrV(<<"1", ".", " ", "D", "E", "F", "I", "N", "I", "T", "I", "O", "N", "S">>), Null, ListV(<<>>))

Headings(q) == [k \in DOMAIN q |-> <<q[k].title, q[k].number>>]

\* C15: at every line the segmenter takes, the open section is the last one
\* of the list; the sections before the open one are left as they were; new
\* sections are added after all others; the open section keeps its title
\* and number and only gains clauses or clause text; once a section is open
\* there is one open ever after; and the list returned holds the sections in
\* the order they were opened.
C15_OpenSectionIsLatest ==
    [][/\ TakesLine =>
            LET n == Len(seg.sections) IN
            /\ seg.current_section = n
            /\ seg'.current_section = Len(seg'.sections)
            /\ Len(seg'.sections) >= n
            /\ n > 0 => /\ seg'.current_section # 0
                        /\ SubSeq(seg'.sections, 1, n - 1) = SubSeq(seg.sections, 1, n - 1)
                        /\ Headings(SubSeq(seg'.sections, 1, n)) = Headings(seg.sections)
                        /\ Len(seg'.sections[n].clauses.v) >= Len(seg.sections[n].clauses.v)
                        /\ Len(seg'.sections) > n =>  seg'.sections[n] = seg.sections[n]
       /\ (pc = "segment" /\ pc' = "segmented") =>
            Headings(seg'.sections) = Headings(seg.sections)]_vars

\* A clause or continuation line has just gone to the second or a later
\* section while an earlier section holds clauses of its own.
C15_Witness ==
    /\ pc = "segment" /\ Len(seg.sections) >= 2
    /\ seg.rule \in {"clause", "continuation"}
    /\ seg.current_section = Len(seg.sections)
    /\ seg.sections[1].clauses.v # <<>>
    /\ seg.sections[Len(seg.sections)].clauses.v # <<>>

\* The implicit section: titled "General", without a number.
IsGeneral(s) == s.title = StrV(GENERAL_TITLE) /\ s.number = Null

\* C16 as stated: a General section is opened only by a line that arrives
\* while no section is open, as the first section, and that line is stored
\* in it as a clause; so a General section, while the lines are taken and in
\* the list returned, is the first section and holds at least one clause.
C16_GeneralHoldsTriggerLine ==
    [][/\ (TakesLine /\ \E k \in DOMAIN seg'.sections :
                            k > Len(seg.sections) /\ IsGeneral(seg'.sections[k]))
            => /\ seg.current_section = 0 /\ seg.sections = <<>>
               /\ Len(seg'.sections) = 1
               /\ Len(seg'.sections[1].clauses.v) = 1
       /\ (pc = "segment" /\ pc' = "segmented")
            => \A k \in DOMAIN seg'.sections :
                  IsGeneral(seg'.sections[k])
                      => k = 1 /\ seg'.sections[k].clauses.v # <<>>]_vars

\* C16 fails here: segment_sections has returned a General section without
\* any clause, followed by the section its trigger line opened.
C16_Witness ==
    /\ pc = "segmented" /\ Len(seg.sections) >= 2
    /\ seg.sections[1] = Section(StrV(GENERAL_TITLE), Null, ListV(<<>>))
    /\ seg.sections[2].number # Null

\* C17: a blank line, a page-number line, an exhibit, schedule or annex
\* header, or a line equal without case to the known title leaves the list of
\* sections (their clauses and texts included) and the open section as they
\* were; only the position in the line stream moves on.
C17_SkippedLineChangesNothing ==
    [][(TakesLine /\ SkippedLine(NextRaw))
          => /\ seg'.sections = seg.sections
             /\ seg'.current_section = seg.current_section
             /\ seg'.known_title = seg.known_title
             /\ seg'.doc_lines = seg.doc_lines
             /\ seg'.i = seg.i + 1]_vars

\* A line that differs from the known title in case only has just been
\* skipped while a section with a clause was open.
C17_Witness ==
    /\ pc = "segment" /\ seg.i > 1 /\ seg.rule = "skip"
    /\ LET raw == strip(seg.doc_lines[seg.i - 1]) IN
         /\ seg.known_title # <<>> /\ raw # strip(seg.known_title)
         /\ upper(raw) = upper(strip(seg.known_title))
    /\ seg.current_section > 0
    /\ seg.sections[seg.current_section].clauses.v # <<>>

\* The text of the last clause of a section.
LastText(s) == s.clauses.v[Len(s.clauses.v)].text.v

\* C18: a line that is not skipped, passes no header test and does not match
\* the clause-label pattern is joined with one space to the text of the last
\* clause of the open section, and the result normalised, when that section
\* has a clause; otherwise it becomes the first clause, with label "", of the
\* open section (the General section when none was open).  Nothing else
\* changes, and a section that has a clause keeps its number of clauses.
C18_ContinuationExtendsLastClause ==
    [][(TakesLine /\ ~SkippedLine(NextRaw)
        /\ ~is_numbered_header(NextRaw) /\ ~is_bare_header(NextRaw)
        /\ ~CLAUSE_LABEL_RE(NextRaw))
          => LET n == Len(seg.sections)
                 first == ListV(<<Clause(StrV(strip(sub_ws(NextRaw))), StrV(<<>>), IntV(0))>>)
             IN IF n = 0
                THEN seg'.sections = <<Section(StrV(GENERAL_TITLE), Null, first)>>
                ELSE IF seg.sections[n].clauses.v = <<>>
                THEN seg'.sections = [seg.sections EXCEPT ![n].clauses = first]
                ELSE /\ Len(seg'.sections[n].clauses.v) = Len(seg.sections[n].clauses.v)
                     /\ seg'.sections =
                          [seg.sections EXCEPT
                             ![n].clauses.v[Len(seg.sections[n].clauses.v)].text =
                                StrV(strip(sub_ws(LastText(seg.sections[n]) \o <<" ">> \o NextRaw)))]]_vars

\* A line has just been appended to the text of the last clause of a section
\* that holds two clauses, and the first clause's text is not the last's.
C18_Witness ==
    /\ pc = "segment" /\ seg.rule = "continuation" /\ seg.current_section > 0
    /\ LET s == seg.sections[seg.current_section] IN
         /\ Len(s.clauses.v) = 2
         /\ s.clauses.v[1].text # s.clauses.v[2].text

\* The text of the first three pages, and of all pages, joined by newlines.
FullText == join_lines(SubSeq(pages_text, 1, IF Len(pages_text) < 3 THEN Len(pages_text) ELSE 3))
FullDoc == join_lines(pages_text)

\* The ISO form of the date-like substring of t that pattern n matches from
\* position a on (null when it does not parse).
ParsedAt(t, a, n) ==
    try_parse_date_to_iso(n, SubSeq(t, a, pattern_end(n, t, a) - 1), DATEUTIL_AVAILABLE)

\* The date-like substrings of t that parse: where each starts, and by which
\* of the four patterns.
ParsingMatches(t) ==
    {m \in (1..Len(t)) \X (1..4) :
        pattern_end(m[2], t, m[1]) > 0 /\ Truthy(ParsedAt(t, m[1], m[2]))}

\* C19 as stated: when date-like substrings of the first three pages parse,
\* extract_effective_date returns the ISO form of the one that starts
\* earliest in the text, whichever pattern matches it.
C19_EarliestDateReturned ==
    (effective_date # Unset /\ ParsingMatches(FullText) # {})
        => \E m \in ParsingMatches(FullText) :
              /\ \A o \in ParsingMatches(FullText) : m[1] <= o[1]
              /\ effective_date = ParsedAt(FullText, m[1], m[2])

\* C19 fails here: with dateutil imported, the page "Signed 2024-03-01,
\* effective as of January 5, 2024." has given "2024-01-05", the match of
\* the first pattern, although "2024-03-01" stands before it in the text.
C19_Witness ==
    /\ DATEUTIL_AVAILABLE
    /\ pages_text = <<<<"S", "i", "g", "n", "e", "d", " ", "2", "0", "2", "4", "-", "0", "3", "-", "0", "1", ",", " ", "e", "f", "f", "e", "c", "t", "i", "v", "e", " ", "a", "s", " ", "o", "f", " ", "J", "a", "n", "u", "a", "r", "y", " ", "5", ",", " ", "2", "0", "2", "4", ".">>>>
    /\ effective_date = StrV(<<"2", "0", "2", "4", "-", "0", "1", "-", "0", "5">>)

\* C20 as stated: when no date-like substring of the first three pages
\* parses, extract_effective_date returns the ISO form of a date-like
\* substring of the whole document that parses if there is one, and null
\* only if there is none.
C20_WholeDocumentDateReturned ==
    (effective_date # Unset /\ ParsingMatches(FullText) = {})
        => IF ParsingMatches(FullDoc) = {} THEN effective_date = Null
           ELSE \E m \in ParsingMatches(FullDoc) :
                   effective_date = ParsedAt(FullDoc, m[1], m[2])

\* C20 fails here: with dateutil imported, "February 30, 2024" on the first
\* page does not parse, "March 1, 2024" on the fourth page does, and
\* extract_effective_date has returned null.
C20_Witness ==
    /\ DATEUTIL_AVAILABLE
    /\ pages_text = <<<<"M", "a", "d", "e", " ", "o", "n", " ", "F", "e", "b", "r", "u", "a", "r", "y", " ", "3", "0", ",", " ", "2", "0", "2", "4", ".">>, <<" ">>, <<>>, <<"A", "m", "e", "n", "d", "e", "d", " ", "o", "n", " ", "M", "a", "r", "c", "h", " ", "1", ",", " ", "2", "0", "2", "4", ".">>>>
    /\ ParsingMatches(FullText) = {} /\ ParsingMatches(FullDoc) # {}
    /\ effective_date = Null

\* A word in title case: an upper-case letter first, no upper-case letter after.
TitleCasedWord(w) ==
    /\ w[1] \in UpperCase
    /\ \A k \in 2..Len(w) : w[k] \notin UpperCase

\* A line that is upper-cased or title-cased, has no terminal period and
\* holds at most MAX_TITLE_LEN characters (conditions (a)-(c) of the title
\* classifier as the specification words them).
TitleShaped(ln) ==
    /\ ln = upper(ln) \/ \A k \in DOMAIN split_words(ln) : TitleCasedWord(split_words(ln)[k])
    /\ ln[Len(ln)] # "."
    /\ Len(ln) <= MAX_TITLE_LEN

\* The non-empty, non-exhibit lines of page 1, stripped.
TitleCandidates ==
    LET first_page == IF lines_by_page # <<>> THEN lines_by_page[1] ELSE <<>>
        stripped == [k \in DOMAIN first_page |-> strip(first_page[k])]
    IN SelectSeq(stripped, LAMBDA ln : ln # <<>> /\ ~is_exhibit_header(ln))

\* The title the strict priority of C21 selects among the candidates q.
TitleByPriority(q) ==
    LET head == SubSeq(q, 1, IF Len(q) < TITLE_SCAN_LINES THEN Len(q) ELSE TITLE_SCAN_LINES)
        k1 == {k \in DOMAIN head : TitleShaped(head[k]) /\ has_agreement_keyword(head[k])}
        k2 == {k \in DOMAIN head : TitleShaped(head[k])}
        least(S) == CHOOSE k \in S : \A j \in S : k <= j
    IN IF k1 # {} THEN head[least(k1)]
       ELSE IF k2 # {} THEN head[least(k2)]
       ELSE IF q # <<>> THEN q[1]
       ELSE <<"A", "g", "r", "e", "e", "m", "e", "n", "t">>

\* C21 as stated: the title guess_title_and_type returns is the one the
\* strict priority selects (first a title-shaped line with an agreement
\* keyword, else the first title-shaped line, else the first non-exhibit
\* line, else "Agreement"), up to whitespace normalisation.
C21_TitleByStrictPriority ==
    title_type # Unset
        => title_type.title = normalize_whitespace(TitleByPriority(TitleCandidates))

\* C21 fails here: page 1 reads "made between the parties", "Master Services
\* Agreement", "SCHEDULE 1"; the second line is title-cased and names an
\* agreement type, and the first line has been returned as the title.
C21_Witness ==
    /\ title_type # Unset
    /\ TitleCandidates = <<<<"m", "a", "d", "e", " ", "b", "e", "t", "w", "e", "e", "n", " ", "t", "h", "e", " ", "p", "a", "r", "t", "i", "e", "s">>, <<"M", "a", "s", "t", "e", "r", " ", "S", "e", "r", "v", "i", "c", "e", "s", " ", "A", "g", "r", "e", "e", "m", "e", "n", "t">>>>
    /\ TitleByPriority(TitleCandidates) = <<"M", "a", "s", "t", "e", "r", " ", "S", "e", "r", "v", "i", "c", "e", "s", " ", "A", "g", "r", "e", "e", "m", "e", "n", "t">>
    /\ title_type.title = <<"m", "a", "d", "e", " ", "b", "e", "t", "w", "e", "e", "n", " ", "t", "h", "e", " ", "p", "a", "r", "t", "i", "e", "s">>

---------------------------------------------------------------------------
(* grader.py: the schema models Clause, Section and Contract, as           *)
(* Contract.model_validate applies them to parsed JSON.  Field(...) makes  *)
(* a field required, Optional[str] lets it be null, and validation is in   *)
(* lax mode, where an int field also takes a str of decimal digits.        *)

schema_str(x) == x.t = "str"
schema_optional_str(x) == x.t \in {"str", "null"}
schema_int(x) ==
    \/ x.t = "int"
    \/ x.t = "str" /\ x.v # <<>> /\ \A k \in DOMAIN x.v : x.v[k] \in Digit

\* class Clause(BaseModel)
Clause_model_validate(cl) ==
    /\ cl.t = "dict"
    /\ schema_str(cl.text) /\ schema_str(cl.label) /\ schema_int(cl.index)

\* class Section(BaseModel); clauses has min_length=1
Section_model_validate(sec) ==
    /\ sec.t = "dict"
    /\ schema_str(sec.title) /\ schema_optional_str(sec.number)
    /\ sec.clauses.t = "list" /\ sec.clauses.v # <<>>
    /\ \A k \in DOMAIN sec.clauses.v : Clause_model_validate(sec.clauses.v[k])

\* class Contract(BaseModel)
Contract_model_validate(data) ==
    /\ data.t = "dict"
    /\ schema_str(data.title) /\ schema_str(data.contract_type)
    /\ schema_optional_str(data.effective_date)
    /\ data.sections.t = "list"
    /\ \A k \in DOMAIN data.sections.v : Section_model_validate(data.sections.v[k])

\* C22 as stated: every document the hand-rolled rule check passes, the
\* candidate as well as the auto-fixed one, satisfies the Contract schema.
C22_PassedSatisfiesSchema ==
    /\ (report_in # Unset /\ report_in.passed) => Contract_model_validate(final_output)
    /\ (report_out # Unset /\ report_out.passed) => Contract_model_validate(fixed.value)

\* C22 fails here: the candidate holds no effective_date key, the schema
\* requires the field, and the rule check has passed the candidate.
C22_Witness ==
    /\ report_in # Unset /\ report_in.passed
    /\ final_output.effective_date = Missing
    /\ ~Contract_model_validate(final_output)

\* Every section of the list q has a title that is not empty.
AllTitled(q) == \A k \in DOMAIN q : q[k].title.t = "str" /\ q[k].title.v # <<>>

\* Every clause of the list q has a text that is not empty and is its own
\* whitespace normalisation, and an index that is its position.
ClausesWellFormed(q) ==
    \A k \in DOMAIN q : \A j \in DOMAIN q[k].clauses.v :
        LET cl == q[k].clauses.v[j] IN
        /\ cl.text.v # <<>>
        /\ cl.text.v = normalize_whitespace(cl.text.v)
        /\ cl.index = IntV(j - 1)

\* C23: after every step of segment_sections each section of the list has
\* a non-empty title; the filter at the end removes no section, so no
\* section of the result has both an empty title and no clauses; and every
\* clause of the result has a non-empty, whitespace-normalised text and an
\* index equal to its position.
C23_SectionsTitledClausesWellFormed ==
    [][/\ (pc = "segment") => AllTitled(seg'.sections)
       /\ (pc = "segment" /\ pc' = "segmented") =>
             /\ Len(seg'.sections) = Len(seg.sections)
             /\ ClausesWellFormed(seg'.sections)]_vars

\* segment_sections has returned several sections, one of them with no
\* clause (kept for its title) and one with two clauses or more.
C23_Witness ==
    /\ pc = "segmented" /\ seg.rule = "return"
    /\ Len(seg.sections) >= 2
    /\ \E k \in DOMAIN seg.sections : seg.sections[k].clauses.v = <<>>
    /\ \E k \in DOMAIN seg.sections : Len(seg.sections[k].clauses.v) >= 2

============================================================================
